---- MODULE Spec2Model ----
(***************************************************************************)
(* A model of the drilling-assistant chat application:                     *)
(*   - the table and graph sanitizers of src/app/api/chat/route.ts,        *)
(*   - processAndEnsureDataFormatting and the client's marker parsing,     *)
(*   - the POST /api/chat handler and its context cache,                   *)
(*   - GraphRenderer, and the chat component in the browser.               *)
(* JSON strings are sequences of one-character strings, so that the        *)
(* regular-expression replacements, parseFloat and toLowerCase are         *)
(* computed character by character.                                        *)
(***************************************************************************)
EXTENDS Integers, Sequences, FiniteSets, TLC

VARIABLES
    tableData,      \* the object handed to sanitizeTableData (mutated in place)
    tableResult,    \* what sanitizeTableData returned
    tablePc,        \* "start" | "done" | "again"
    graphParsed,    \* the graph payload as it was parsed
    graphData,      \* the object handed to sanitizeGraphData (mutated in place)
    graphResult,    \* what sanitizeGraphData returned
    graphAgain,     \* what sanitizeGraphData returned for graphResult
    graphPc,        \* "start" | "done" | "threw" | "again"
    rendered        \* the props GraphRenderer was given and what it showed

\* The reply pipeline: the text of the LLM, what processAndEnsureDataFormatting
\* made of it, and the assistant message the client builds from that.
VARIABLES originalContent, processedContent, assistantMessage, replyPc

tableVars == <<tableData, tableResult, tablePc>>
graphVars == <<graphParsed, graphData, graphResult, graphAgain, graphPc, rendered>>

replyVars == <<originalContent, processedContent, assistantMessage, replyPc>>

\* The server process: the imported pdf-content.json, the environment, the
\* module-level cache of extractPdfContent, the clock behind Date.now(), and
\* the POST requests in progress.
VARIABLES pdfData, OPENROUTER_API_KEY, pdfContentCache, pdfCacheTimestamp, now, requests

processVars == <<pdfData, OPENROUTER_API_KEY>>
cacheVars == <<pdfContentCache, pdfCacheTimestamp>>
serverVars == <<processVars, cacheVars, now, requests>>

\* The chat component in the browser: the entry of localStorage under
\* CHAT_HISTORY_KEY, the component's state, whether a commit is waiting for
\* its effects, the fetch of /api/chat on its way, and counts of what has
\* happened so far.
VARIABLES
    localStorage,   \* the entry under CHAT_HISTORY_KEY
    savedHistory,   \* what the load effect read from it
    messages, isHydrated, isLoading,
    mounted,        \* the load effect has run
    committed,      \* the effects of the last state change have run
    fetching,       \* the fetch of /api/chat: none, sent, or received by the server
    submissions,    \* the submissions accepted so far
    fetches,        \* the calls of fetch('/api/chat') so far
    settlements     \* the calls that have settled so far

clientVars == <<localStorage, savedHistory, messages, isHydrated, isLoading, mounted, committed,
                fetching, submissions, fetches, settlements>>

vars == <<tableVars, graphVars, replyVars, serverVars, clientVars>>

----------------------------------------------------------------------------
(* Bounds of the enumerated inputs.                                        *)

MaxHeaders == 2
MaxRows == 2
MaxCells == 3
MaxKeys == 3
MaxRecords == 2

----------------------------------------------------------------------------
(* JSON values.  A scalar is a record [t, n, s]: t is the JavaScript type, *)
(* n the number, s the characters of a string.                             *)

Undefined == [t |-> "undefined", n |-> 0, s |-> <<>>]
Null == [t |-> "null", n |-> 0, s |-> <<>>]
Num(i) == [t |-> "number", n |-> i, s |-> <<>>]
Str(cs) == [t |-> "string", n |-> 0, s |-> cs]

\* JavaScript truthiness of a scalar.
Truthy(v) ==
    CASE v.t = "undefined" -> FALSE
      [] v.t = "null" -> FALSE
      [] v.t = "number" -> v.n # 0
      [] v.t = "string" -> Len(v.s) > 0
      [] OTHER -> TRUE

\* The sequences over S of length 0..n.
SeqUpTo(S, n) == UNION {[1..k -> S] : k \in 0..n}

\* new Array(n).fill(null)
NullRow(n) == [i \in 1..n |-> Null]

Min(a, b) == IF a < b THEN a ELSE b

----------------------------------------------------------------------------
(* Characters and strings.                                                 *)

\* The characters /[\s.\-]+/ matches (of whitespace, the space).
SlugChars == {" ", ".", "-"}
Digits == {"0", "1", "2", "3", "4", "5", "6", "7", "8", "9"}
DigitValue == [c \in Digits |->
    CASE c = "0" -> 0 [] c = "1" -> 1 [] c = "2" -> 2 [] c = "3" -> 3 [] c = "4" -> 4
      [] c = "5" -> 5 [] c = "6" -> 6 [] c = "7" -> 7 [] c = "8" -> 8 [] c = "9" -> 9]

\* String.prototype.toLowerCase, on the letters the chart types are written in.
UpperCase == {"A", "B", "L", "P", "S", "C"}
LowerChar(c) ==
    CASE c = "A" -> "a" [] c = "B" -> "b" [] c = "L" -> "l"
      [] c = "P" -> "p" [] c = "S" -> "s" [] c = "C" -> "c" [] OTHER -> c
toLowerCase(cs) == [i \in 1..Len(cs) |-> LowerChar(cs[i])]

\* /[\s.\-]+/.test(key)
slugTest(key) == \E i \in 1..Len(key) : key[i] \in SlugChars

\* key.replace(/[\s.\-]+/g, '_'): every maximal run of blanks, periods and
\* hyphens becomes one underscore.
RECURSIVE slugFrom(_, _, _)
slugFrom(key, i, inRun) ==
    IF i > Len(key) THEN <<>>
    ELSE IF key[i] \in SlugChars
         THEN (IF inRun THEN <<>> ELSE <<"_">>) \o slugFrom(key, i + 1, TRUE)
         ELSE <<key[i]>> \o slugFrom(key, i + 1, FALSE)

slugReplace(key) == slugFrom(key, 1, FALSE)

\* parseFloat on strings of blanks, a sign, digits and other characters (no
\* period, no exponent): leading blanks are skipped, then an optional sign and
\* the longest run of digits are read; no digit gives NaN.
RECURSIVE skipBlanks(_, _)
skipBlanks(cs, i) == IF i <= Len(cs) /\ cs[i] = " " THEN skipBlanks(cs, i + 1) ELSE i

RECURSIVE readDigits(_, _, _)
readDigits(cs, i, acc) ==
    IF i <= Len(cs) /\ cs[i] \in Digits
    THEN readDigits(cs, i + 1, 10 * acc + DigitValue[cs[i]])
    ELSE acc

parseFloat(cs) ==
    LET b == skipBlanks(cs, 1)
        neg == b <= Len(cs) /\ cs[b] = "-"
        d == IF b <= Len(cs) /\ cs[b] \in {"-", "+"} THEN b + 1 ELSE b
    IN  IF d <= Len(cs) /\ cs[d] \in Digits
        THEN [isNaN |-> FALSE, n |-> IF neg THEN 0 - readDigits(cs, d, 0) ELSE readDigits(cs, d, 0)]
        ELSE [isNaN |-> TRUE, n |-> 0]

\* typeof value === 'string' && !isNaN(parseFloat(value))
numericLooking(v) == v.t = "string" /\ ~parseFloat(v.s).isNaN

\* if (typeof value === 'string' && !isNaN(parseFloat(value))) value = parseFloat(value)
coerce(v) == IF numericLooking(v) THEN Num(parseFloat(v.s).n) ELSE v

----------------------------------------------------------------------------
(* Objects parsed from JSON.  A data record keeps its keys in insertion    *)
(* order (no key of the model is an array index, so that is the order of   *)
(* for-in and Object.keys).                                                *)

Entry(k, v) == [k |-> k, v |-> v]
hasOwnProperty(kv, k) == \E i \in 1..Len(kv) : kv[i].k = k
Get(kv, k) ==
    IF hasOwnProperty(kv, k)
    THEN kv[CHOOSE i \in 1..Len(kv) : kv[i].k = k].v
    ELSE Undefined
\* obj[k] = v: an existing key keeps its place, a new key goes last.
Put(kv, k, v) ==
    IF hasOwnProperty(kv, k)
    THEN [i \in 1..Len(kv) |-> IF kv[i].k = k THEN Entry(k, v) ELSE kv[i]]
    ELSE Append(kv, Entry(k, v))
Keys(kv) == [i \in 1..Len(kv) |-> kv[i].k]

\* An element of graphData.data: an object, or something that is none.
Point(kv) == [isObject |-> TRUE, kv |-> kv]
NonObjectPoint == [isObject |-> FALSE, kv |-> <<>>]

\* A property that should hold an array.
Array(items) == [kind |-> "array", items |-> items]
Missing == [kind |-> "undefined", items |-> <<>>]
NotAnArray == [kind |-> "object", items |-> <<>>]
isArray(a) == a.kind = "array"

(* Notes.  options.note is a sequence of phrases; <<>> is "no note".  A    *)
(* phrase is [p, x, y]: its text, and for "Keys mapped" the two keys.      *)
Phrase(p) == [p |-> p, x |-> <<>>, y |-> <<>>]
NoteTableCorrected == Phrase("Table rows were corrected for consistency.")
NoteKeysSanitized == Phrase("Keys sanitized (e.g., spaces replaced with underscores).")
NoteOtherKeysSanitized == Phrase("Other keys sanitized (e.g., spaces replaced with underscores).")
NoteKeysMapped(x, y) == [p |-> "Keys mapped:", x |-> x, y |-> y]
NoteCustom == Phrase("note")
\* note.includes(phrase)
includes(note, phrase) == \E i \in 1..Len(note) : note[i] = phrase

\* The options object: present or not; its note, the axis names and the
\* chartConfig array of { dataKey } entries.
NoOptions ==
    [present |-> FALSE, note |-> <<>>, xAxisName |-> Undefined, yAxisName |-> Undefined,
     chartConfig |-> Missing]
Options(note) == [NoOptions EXCEPT !.present = TRUE, !.note = note]

\* An object parsed from a JSON literal, with the properties the code reads.
EmptyObject ==
    [type |-> Undefined, data |-> Missing, headers |-> Missing, rows |-> Missing,
     options |-> NoOptions, title |-> Undefined]
Table(headers, rows, options) ==
    [EmptyObject EXCEPT !.headers = headers, !.rows = rows, !.options = options]
Graph(type, data, options) ==
    [EmptyObject EXCEPT !.type = type, !.data = data, !.options = options]

----------------------------------------------------------------------------
(* Each specification below runs one part of the program; the variables of *)
(* the other parts stay idle.                                              *)

\* The requests of the model.
Requests == {"r1", "r2"}

\* No answer of the upstream endpoint (yet), and no call of extractPdfContent.
NoAnswer ==
    [rejects |-> FALSE, status |-> 0, contentTypeJson |-> FALSE, parses |-> FALSE,
     error |-> [present |-> FALSE, code |-> Undefined, type |-> "", message |-> ""],
     hasContent |-> FALSE]
NoLoad == [at |-> 0, before |-> Null, after |-> Null, read |-> FALSE]

NoResponse == [status |-> 0, error |-> "", details |-> ""]
NoRequest ==
    [pc |-> "idle", body |-> [parses |-> FALSE, isNull |-> FALSE,
                              messages |-> [kind |-> "undefined", items |-> <<>>]],
     pdfContent |-> Null, loads |-> 0, calls |-> 0, response |-> NoResponse,
     load |-> NoLoad, sent |-> <<>>, upstream |-> NoAnswer]

\* Nothing stored and nothing posted.
NoHistory == [present |-> FALSE, empty |-> FALSE, parses |-> FALSE, isArray |-> FALSE, items |-> <<>>]
NoFetch == [state |-> "none", body |-> <<>>]

\* The variables of the chat component when there is no browser.
ClientIdle ==
    /\ localStorage = NoHistory
    /\ savedHistory = NoHistory
    /\ messages = <<>>
    /\ isHydrated = FALSE
    /\ isLoading = FALSE
    /\ mounted = FALSE
    /\ committed = TRUE
    /\ fetching = NoFetch
    /\ submissions = 0
    /\ fetches = 0
    /\ settlements = 0

ServerIdle ==
    /\ pdfData = Undefined
    /\ OPENROUTER_API_KEY = Undefined
    /\ pdfContentCache = Null
    /\ pdfCacheTimestamp = Null
    /\ now = 0
    /\ requests = [r \in Requests |-> NoRequest]

ReplyIdle ==
    /\ originalContent = <<>>
    /\ processedContent = [threw |-> FALSE, text |-> <<>>]
    /\ assistantMessage = [role |-> "none", content |-> <<>>,
                           graphData |-> [attached |-> FALSE, obj |-> EmptyObject],
                           tableData |-> [attached |-> FALSE, obj |-> EmptyObject]]
    /\ replyPc = "idle"

\* The variables of the table sanitizer when it is not the one running.
TableIdle ==
    /\ tableData = EmptyObject
    /\ tableResult = EmptyObject
    /\ tablePc = "idle"

\* The variables of the graph sanitizer when it is not the one running.
\* GraphRenderer has not been called.
NotRendered == [props |-> EmptyObject, outcome |-> "none"]

GraphIdle ==
    /\ graphParsed = EmptyObject
    /\ graphData = EmptyObject
    /\ graphResult = EmptyObject
    /\ graphAgain = EmptyObject
    /\ graphPc = "idle"
    /\ rendered = NotRendered

----------------------------------------------------------------------------
(* sanitizeTableData                                                       *)

\* A row of tableData.rows: an array of cells, or something that is no array.
ArrayRow(cells) == [isArray |-> TRUE, cells |-> cells]
NonArrayRow == [isArray |-> FALSE, cells |-> <<>>]

\* Two faulty variants of the row callback: no padding, and cells moved by one.
TruncRowMutant(row, headerCount) ==
    IF ~row.isArray THEN ArrayRow(NullRow(headerCount))
    ELSE IF Len(row.cells) # headerCount
         THEN ArrayRow([i \in 1..Min(Len(row.cells), headerCount) |-> row.cells[i]])
         ELSE row

ShiftRowMutant(row, headerCount) ==
    IF ~row.isArray THEN ArrayRow(NullRow(headerCount))
    ELSE IF Len(row.cells) # headerCount
         THEN ArrayRow([i \in 1..headerCount |->
                  IF i > 1 /\ i - 1 <= Len(row.cells) THEN row.cells[i - 1] ELSE Null])
         ELSE row

\* The callback of tableData.rows.map: one row, forced to headerCount cells.
sanitizeRow(row, headerCount) ==
    IF ~row.isArray THEN ArrayRow(NullRow(headerCount))
    ELSE IF Len(row.cells) # headerCount
         THEN ArrayRow([i \in 1..headerCount |->
                  IF i <= Min(Len(row.cells), headerCount) THEN row.cells[i] ELSE Null])
         ELSE row

\* issuesFound: some row was replaced or corrected.
issuesFound(td) ==
    \E i \in 1..Len(td.rows.items) :
        \/ ~td.rows.items[i].isArray
        \/ Len(td.rows.items[i].cells) # Len(td.headers.items)

\* The guard of sanitizeTableData: headers and rows must both be arrays.
validTable(td) == isArray(td.headers) /\ isArray(td.rows)

\* tableData after the call: the note is written into the argument itself.
tableDataAfter(td) ==
    IF validTable(td) /\ issuesFound(td) /\ td.options.note = <<>>
    THEN [td EXCEPT !.options.present = TRUE, !.options.note = <<NoteTableCorrected>>]
    ELSE td

\* The value sanitizeTableData returns: { ...tableData, rows: sanitizedRows }.
sanitizeTableData(td) ==
    IF ~validTable(td) THEN td
    ELSE [tableDataAfter(td) EXCEPT
             !.rows = Array([i \in 1..Len(td.rows.items) |->
                                sanitizeRow(td.rows.items[i], Len(td.headers.items))])]

----------------------------------------------------------------------------
(* The table payloads the sanitizer is applied to.                         *)

HeaderNames == <<Str(<<"A">>), Str(<<"B">>), Str(<<"C">>), Str(<<"D">>)>>
CellValues == {Num(1), Str(<<"x">>)}
TableRows == {ArrayRow(c) : c \in SeqUpTo(CellValues, MaxCells)} \cup {NonArrayRow}
TableOptions == {NoOptions, Options(<<>>), Options(<<NoteCustom>>)}

TablePayload(p) ==
    \/ \E h \in 0..MaxHeaders, r \in SeqUpTo(TableRows, MaxRows), o \in TableOptions :
          p = Table(Array(SubSeq(HeaderNames, 1, h)), Array(r), o)
    \/ \E h \in {Missing, NotAnArray}, r \in {Missing, Array(<<>>)} :
          p = Table(h, r, NoOptions)

TableInit ==
    /\ TablePayload(tableData)
    /\ tableResult = EmptyObject
    /\ tablePc = "start"
    /\ GraphIdle
    /\ ReplyIdle
    /\ ServerIdle
    /\ ClientIdle

\* One call of sanitizeTableData(tableData).
SanitizeTable ==
    /\ tablePc = "start"
    /\ tableResult' = sanitizeTableData(tableData)
    /\ tableData' = tableDataAfter(tableData)
    /\ tablePc' = "done"
    /\ UNCHANGED <<graphVars, replyVars, serverVars, clientVars>>

\* A second call, on the value the first one returned.
ResanitizeTable ==
    /\ tablePc = "done"
    /\ tableResult' = sanitizeTableData(tableResult)
    /\ tablePc' = "again"
    /\ UNCHANGED <<tableData, graphVars, replyVars, serverVars, clientVars>>

TableNext == SanitizeTable \/ ResanitizeTable

SpecTable == TableInit /\ [][TableNext]_vars

\* C1: for a payload whose headers and rows are arrays, every row of the
\* sanitized table is an array with exactly headers.length cells.
C1_RowLengthEqualsHeaders ==
    (tablePc # "start" /\ validTable(tableData)) =>
        /\ isArray(tableResult.rows)
        /\ Len(tableResult.rows.items) = Len(tableData.rows.items)
        /\ \A i \in 1..Len(tableResult.rows.items) :
              /\ tableResult.rows.items[i].isArray
              /\ Len(tableResult.rows.items[i].cells) = Len(tableResult.headers.items)

\* A sanitized table that had a non-array row and a row longer than the headers.
C1_Witness ==
    /\ tablePc = "done"
    /\ Len(tableData.headers.items) = 2
    /\ Len(tableData.rows.items) = 2
    /\ ~tableData.rows.items[1].isArray
    /\ tableData.rows.items[2].isArray /\ Len(tableData.rows.items[2].cells) = 3
    /\ Len(tableResult.rows.items[2].cells) = 2

\* A sanitized table with zero headers and a non-empty row.
C1_WitnessZeroHeaders ==
    /\ tablePc = "done"
    /\ validTable(tableData)
    /\ Len(tableData.headers.items) = 0
    /\ \E i \in 1..Len(tableData.rows.items) :
          tableData.rows.items[i].isArray /\ Len(tableData.rows.items[i].cells) > 0

\* C2: sanitizeTableData keeps cells in place: output cell i is input cell i
\* below min(row length, headers.length), every other cell is null, and a
\* non-array row becomes an all-null row.
C2_CellsKeptInPlace ==
    (tablePc = "done" /\ validTable(tableData)) =>
        \A i \in 1..Len(tableData.rows.items) :
            LET in == tableData.rows.items[i]
                out == tableResult.rows.items[i].cells
            IN  \A j \in 1..Len(tableData.headers.items) :
                    out[j] = IF in.isArray /\ j <= Len(in.cells) THEN in.cells[j] ELSE Null

\* headers [A,B] with rows [[x],[1,1,1]] gives rows [[x,null],[1,1]].
C2_Witness ==
    /\ tablePc = "done"
    /\ tableData.headers = Array(<<Str(<<"A">>), Str(<<"B">>)>>)
    /\ tableData.rows = Array(<<ArrayRow(<<Str(<<"x">>)>>), ArrayRow(<<Num(1), Num(1), Num(1)>>)>>)
    /\ tableResult.rows = Array(<<ArrayRow(<<Str(<<"x">>), Null>>), ArrayRow(<<Num(1), Num(1)>>)>>)

----------------------------------------------------------------------------
(* sanitizeGraphData                                                       *)

S_scatter == <<"s", "c", "a", "t", "t", "e", "r">>
S_pie == <<"p", "i", "e">>
S_line == <<"l", "i", "n", "e">>
S_bar == <<"b", "a", "r">>
S_Bar == <<"B", "a", "r">>
S_area == <<"a", "r", "e", "a">>
S_composed == <<"c", "o", "m", "p", "o", "s", "e", "d">>
K_name == <<"n", "a", "m", "e">>
K_label == <<"l", "a", "b", "e", "l">>
K_value == <<"v", "a", "l", "u", "e">>
K_x == <<"x">>
K_y == <<"y">>

\* The first guard: a truthy type and a data array, or the argument is
\* returned as it is.
validGraph(gd) == Truthy(gd.type) /\ isArray(gd.data)

\* graphData.type.toLowerCase() is a TypeError when type is not a string.
typeThrows(gd) == validGraph(gd) /\ gd.type.t # "string"

\* The second guard: the first element of data must be an object.
hasFirstPoint(gd) == Len(gd.data.items) > 0 /\ gd.data.items[1].isObject

graphType(gd) == toLowerCase(gd.type.s)
firstPoint(gd) == gd.data.items[1].kv

\* Object.keys(firstPoint).filter(key => typeof firstPoint[key] === 'number')
numericKeys(kv) == SelectSeq(Keys(kv), LAMBDA k : Get(kv, k).t = "number")

\* A source key: <<>> stands for null (and is falsy, like the empty key).
hintKey(hint, kv) ==
    IF Truthy(hint) /\ hint.t = "string" /\ hasOwnProperty(kv, hint.s) THEN hint.s ELSE <<>>

\* xAxisKeySource: the options.xAxis.name hint if the first record has that
\* key, else the first numeric key.
xAxisKeySource(gd) ==
    LET hint == hintKey(gd.options.xAxisName, firstPoint(gd))
        nk == numericKeys(firstPoint(gd))
    IN  IF hint # <<>> THEN hint
        ELSE IF Len(nk) > 0 THEN nk[1] ELSE <<>>

\* yAxisKeySource: the options.yAxis.name hint if the first record has that
\* key; else, when a hint failed, the second numeric key unless it is the x source.
yAxisKeySource(gd) ==
    LET hint == hintKey(gd.options.yAxisName, firstPoint(gd))
        nk == numericKeys(firstPoint(gd))
    IN  IF hint # <<>> THEN hint
        ELSE IF Len(nk) > 1 /\ nk[2] # xAxisKeySource(gd) THEN nk[2] ELSE <<>>

\* The scatter branch maps the data when both sources were identified.
scatterMapped(gd) ==
    /\ graphType(gd) = S_scatter
    /\ xAxisKeySource(gd) # <<>>
    /\ yAxisKeySource(gd) # <<>>

\* The "copy other properties" loop of the scatter map, from entry i on.
RECURSIVE copyOthers(_, _, _, _, _)
copyOthers(kv, i, xs, ys, acc) ==
    IF i > Len(kv) THEN acc
    ELSE IF kv[i].k # xs /\ kv[i].k # ys
         THEN copyOthers(kv, i + 1, xs, ys, Put(acc, slugReplace(kv[i].k), kv[i].v))
         ELSE copyOthers(kv, i + 1, xs, ys, acc)

\* The callback of the scatter map: one record with x and y first.
mapScatterPoint(pt, xs, ys) ==
    IF ~pt.isObject THEN pt
    ELSE Point(copyOthers(pt.kv, 1, xs, ys,
                   <<Entry(K_x, coerce(Get(pt.kv, xs))), Entry(K_y, coerce(Get(pt.kv, ys)))>>))

\* graphData.data after the scatter branch (assigned into the argument).
dataAfterScatter(gd) ==
    IF scatterMapped(gd)
    THEN LET xs == xAxisKeySource(gd)
             ys == yAxisKeySource(gd)
         IN  [i \in 1..Len(gd.data.items) |-> mapScatterPoint(gd.data.items[i], xs, ys)]
    ELSE gd.data.items

\* Some record had another key that the scatter map renamed.
otherKeysSanitized(gd) ==
    LET xs == xAxisKeySource(gd)
        ys == yAxisKeySource(gd)
    IN  \E i \in 1..Len(gd.data.items) :
            /\ gd.data.items[i].isObject
            /\ \E j \in 1..Len(gd.data.items[i].kv) :
                  LET k == gd.data.items[i].kv[j].k
                  IN  k # xs /\ k # ys /\ slugReplace(k) # k

\* categoryKey: 'name' for pie or when the first record has it, else the
\* first key of the first record with a string value, else ''.
categoryKey(gd) ==
    LET fp == firstPoint(gd)
        strs == SelectSeq(Keys(fp), LAMBDA k : Get(fp, k).t = "string")
    IN  IF graphType(gd) = S_scatter THEN <<>>
        ELSE IF graphType(gd) = S_pie THEN K_name
        ELSE IF hasOwnProperty(fp, K_name) THEN K_name
        ELSE IF Len(strs) > 0 THEN strs[1] ELSE <<>>

\* Step 1 of the general pass: the key a property is stored under.
currentKey(key, gt, cat) ==
    IF /\ (gt # S_scatter \/ (key # K_x /\ key # K_y))
       /\ key # cat /\ key # K_label /\ key # K_value
       /\ slugTest(key)
    THEN slugReplace(key)
    ELSE key

\* Step 2 of the general pass: isPotentiallyNumericKey.
isPotentiallyNumericKey(ck, gt, cat) ==
    \/ (gt = S_pie /\ ck = K_value)
    \/ (gt = S_scatter /\ (ck = K_x \/ ck = K_y))
    \/ (gt # S_pie /\ gt # S_scatter /\ ck # cat /\ ck # K_label)

\* The for-in loop of the general pass, from entry i on.
RECURSIVE finalFrom(_, _, _, _, _)
finalFrom(kv, i, gt, cat, acc) ==
    IF i > Len(kv) THEN acc
    ELSE LET ck == currentKey(kv[i].k, gt, cat)
             v == IF isPotentiallyNumericKey(ck, gt, cat) THEN coerce(kv[i].v) ELSE kv[i].v
         IN  finalFrom(kv, i + 1, gt, cat, Put(acc, ck, v))

finalDataPoint(pt, gt, cat) ==
    IF ~pt.isObject THEN pt ELSE Point(finalFrom(pt.kv, 1, gt, cat, <<>>))

\* keysSanitizedInPoint, for some record of the general pass.
keysSanitized(items, gt, cat) ==
    \E i \in 1..Len(items) :
        /\ items[i].isObject
        /\ \E j \in 1..Len(items[i].kv) :
              currentKey(items[i].kv[j].k, gt, cat) # items[i].kv[j].k

\* keyMappingNote when the function reaches "Add note".
keyMappingNote(gd) ==
    LET gt == graphType(gd)
    IN  IF gt = S_scatter
        THEN IF scatterMapped(gd)
             THEN <<NoteKeysMapped(xAxisKeySource(gd), yAxisKeySource(gd))>>
                  \o (IF otherKeysSanitized(gd) THEN <<NoteOtherKeysSanitized>> ELSE <<>>)
             ELSE <<>>
        ELSE IF keysSanitized(gd.data.items, gt, categoryKey(gd))
             THEN <<NoteKeysSanitized>>
             ELSE <<>>

\* finalSanitizedData
finalSanitizedData(gd) ==
    LET items == dataAfterScatter(gd)
        gt == graphType(gd)
        cat == categoryKey(gd)
    IN  [i \in 1..Len(items) |-> finalDataPoint(items[i], gt, cat)]

\* options.note after "Add note".
noteAfter(gd) == IF keyMappingNote(gd) # <<>> THEN keyMappingNote(gd) ELSE gd.options.note

\* The chartConfig callback: a dataKey is renamed when its slug is a key of
\* the first final record.
sanitizeConfig(config, final) ==
    IF /\ Truthy(config.dataKey) /\ config.dataKey.t = "string"
       /\ slugTest(config.dataKey.s)
       /\ Len(final) > 0 /\ final[1].isObject
       /\ hasOwnProperty(final[1].kv, slugReplace(config.dataKey.s))
    THEN [config EXCEPT !.dataKey = Str(slugReplace(config.dataKey.s))]
    ELSE config

chartConfigAfter(gd) ==
    IF includes(noteAfter(gd), NoteKeysSanitized) /\ isArray(gd.options.chartConfig)
    THEN LET final == finalSanitizedData(gd)
         IN  Array([i \in 1..Len(gd.options.chartConfig.items) |->
                       sanitizeConfig(gd.options.chartConfig.items[i], final)])
    ELSE gd.options.chartConfig

\* The options object after the call (it is the argument's own object).
optionsAfter(gd) ==
    [gd.options EXCEPT
        !.present = @ \/ keyMappingNote(gd) # <<>>,
        !.note = noteAfter(gd),
        !.chartConfig = chartConfigAfter(gd)]

\* Whether the call gets past both guards.
sanitizes(gd) == validGraph(gd) /\ ~typeThrows(gd) /\ hasFirstPoint(gd)

\* The argument after the call: data is reassigned by the scatter branch,
\* options is written in place.
graphDataAfter(gd) ==
    IF ~sanitizes(gd) THEN gd
    ELSE [gd EXCEPT !.data = Array(dataAfterScatter(gd)), !.options = optionsAfter(gd)]

\* The value sanitizeGraphData returns: { ...graphData, data: finalSanitizedData }.
\* (Defined where typeThrows does not hold.)
sanitizeGraphData(gd) ==
    IF ~sanitizes(gd) THEN gd
    ELSE [gd EXCEPT !.data = Array(finalSanitizedData(gd)), !.options = optionsAfter(gd)]


----------------------------------------------------------------------------
(* The graph payloads the sanitizer is applied to.                         *)

K_c == <<"c">>
K_d == <<"d">>
K_p == <<"p">>
K_a_b == <<"a", " ", "b">>
K_aub == <<"a", "_", "b">>
V_20 == Str(<<"2", "0">>)
V_A == Str(<<"A">>)

\* The sequences of 1..n distinct elements of S.
DistinctSeqs(S, n) ==
    {q \in SeqUpTo(S, n) : Len(q) > 0 /\ \A i, j \in 1..Len(q) : q[i] = q[j] => i = j}

\* The records with 1..n of the keys K, in any order, with values from V.
RecordsOver(K, V, n) ==
    UNION {{[i \in 1..Len(q) |-> Entry(q[i], vs[i])] : vs \in [1..Len(q) -> V]} :
              q \in DistinctSeqs(K, n)}

\* Further elements of a data array whose first record is kv: the same keys
\* with each value moved to the next key, or an element that is no object.
FurtherPoints(kv) ==
    {Point([i \in 1..Len(kv) |-> Entry(kv[i].k, kv[(i % Len(kv)) + 1].v)]), NonObjectPoint}

DataArrays(kv) ==
    {Array(<<Point(kv)>> \o rest) : rest \in SeqUpTo(FurtherPoints(kv), MaxRecords - 1)}

\* line, bar and area charts: a category key, series keys, keys to rename.
SeriesKeys == {K_name, K_c, K_a_b, K_aub}
SeriesValues == {Num(1), V_20, V_A}
SeriesTypes == {Str(S_line), Str(S_Bar), Str(S_area)}
SeriesOptions ==
    {[Options(<<>>) EXCEPT !.chartConfig = Array(<<[dataKey |-> Str(K_a_b)]>>)]}
SeriesRecords == RecordsOver(SeriesKeys, SeriesValues, MaxKeys)
SeriesPayload(p) ==
    \E kv \in SeriesRecords, t \in SeriesTypes, o \in SeriesOptions :
        \E d \in DataArrays(kv) : p = Graph(t, d, o)

\* scatter charts: two source keys, a key named x, a key to rename, and the
\* axis-name hints.
ScatterKeys == {K_d, K_p, K_x, K_a_b}
ScatterValues == {Num(1), V_20}
AxisHints == {Undefined, Str(K_d), Str(K_p)}
ScatterRecords == RecordsOver(ScatterKeys, ScatterValues, MaxKeys)
ScatterPayload(p) ==
    \E kv \in ScatterRecords, xh \in AxisHints, yh \in AxisHints :
        \E d \in DataArrays(kv) :
            p = Graph(Str(S_scatter), d,
                      [Options(<<>>) EXCEPT !.xAxisName = xh, !.yAxisName = yh])

\* composed charts: a category key, keys that are renamed to the same name,
\* and a chartConfig that names one or two keys.
K_a_dash_b == <<"a", "-", "b">>
ComposedKeys == {K_name, K_a_b, K_a_dash_b, K_aub}
ComposedValues == {Num(1), V_A}
ComposedConfigs ==
    {Array(<<[dataKey |-> Str(K_a_b)]>>),
     Array(<<[dataKey |-> Str(K_aub)], [dataKey |-> Str(K_a_dash_b)]>>)}
ComposedRecords == RecordsOver(ComposedKeys, ComposedValues, MaxKeys)
ComposedPayload(p) ==
    \E kv \in ComposedRecords, c \in ComposedConfigs :
        \E d \in DataArrays(kv) :
            p = Graph(Str(S_composed), d, [Options(<<>>) EXCEPT !.chartConfig = c])

\* line and composed charts with a key named label beside the category key.
LabelValues == {V_20, V_A}
LabelledPayload(p) ==
    \E t \in {Str(S_line), Str(S_composed)}, l \in LabelValues, v \in LabelValues :
        p = Graph(t, Array(<<Point(<<Entry(K_name, V_A), Entry(K_label, l), Entry(K_c, v)>>)>>),
                  NoOptions)

\* Payloads that stop at a guard, or whose type is a number.
GuardedPayloads ==
    {Graph(Undefined, Array(<<Point(<<Entry(K_c, Num(1))>>)>>), NoOptions),
     Graph(Str(S_line), NotAnArray, NoOptions),
     Graph(Str(S_line), Array(<<>>), NoOptions),
     Graph(Str(S_line), Array(<<NonObjectPoint>>), NoOptions),
     Graph(Num(5), Array(<<Point(<<Entry(K_c, Num(1))>>)>>), NoOptions)}

GraphInit ==
    /\ \/ SeriesPayload(graphParsed)
       \/ ScatterPayload(graphParsed)
       \/ ComposedPayload(graphParsed)
       \/ LabelledPayload(graphParsed)
       \/ graphParsed \in GuardedPayloads
    /\ graphData = graphParsed
    /\ graphResult = EmptyObject
    /\ graphAgain = EmptyObject
    /\ graphPc = "start"
    /\ rendered = NotRendered
    /\ TableIdle
    /\ ReplyIdle
    /\ ServerIdle
    /\ ClientIdle

\* One call of sanitizeGraphData(graphData) that returns.
SanitizeGraph ==
    /\ graphPc = "start"
    /\ ~typeThrows(graphData)
    /\ graphResult' = sanitizeGraphData(graphData)
    /\ graphData' = graphDataAfter(graphData)
    /\ graphPc' = "done"
    /\ UNCHANGED <<graphParsed, graphAgain, rendered, tableVars, replyVars, serverVars, clientVars>>

\* One call of sanitizeGraphData(graphData) that ends in a TypeError.
SanitizeGraphThrows ==
    /\ graphPc = "start"
    /\ typeThrows(graphData)
    /\ graphPc' = "threw"
    /\ UNCHANGED <<graphParsed, graphData, graphResult, graphAgain, rendered, tableVars, replyVars,
                   serverVars, clientVars>>

\* A second call, on the value the first one returned.
ResanitizeGraph ==
    /\ graphPc = "done"
    /\ graphAgain' = sanitizeGraphData(graphResult)
    /\ graphPc' = "again"
    /\ UNCHANGED <<graphParsed, graphData, graphResult, rendered, tableVars, replyVars, serverVars,
                   clientVars>>

GraphNext == SanitizeGraph \/ SanitizeGraphThrows \/ ResanitizeGraph

SpecGraph == GraphInit /\ [][GraphNext]_vars


\* The payloads C3 speaks of: type line, bar or area, every element of data
\* a record, and one key that holds a string in every record, next to which
\* every record has a key holding a number.
SeriesWithCategory(gd) ==
    /\ sanitizes(gd)
    /\ graphType(gd) \in {S_line, S_bar, S_area}
    /\ \A i \in 1..Len(gd.data.items) : gd.data.items[i].isObject
    /\ \E c \in {gd.data.items[1].kv[j].k : j \in 1..Len(gd.data.items[1].kv)} :
          \A i \in 1..Len(gd.data.items) :
              LET kv == gd.data.items[i].kv
              IN  /\ Get(kv, c).t = "string"
                  /\ \E j \in 1..Len(kv) : kv[j].k # c /\ kv[j].v.t = "number"

\* No two keys of a record are given the same name by the general pass.
NoKeyCollision(gd) ==
    \A i \in 1..Len(gd.data.items) :
        LET kv == gd.data.items[i].kv
        IN  \A j, k \in 1..Len(kv) :
                currentKey(kv[j].k, graphType(gd), categoryKey(gd))
                    = currentKey(kv[k].k, graphType(gd), categoryKey(gd)) => j = k

\* C3: for a line, bar or area payload with a string category key and a
\* numeric series key, sanitizing the sanitized payload again changes nothing.
C3_SanitizeIdempotent ==
    (graphPc = "again" /\ SeriesWithCategory(graphParsed)) => graphAgain = graphResult

\* The same, for payloads in which no two keys of a record collide.
C3_IdempotentWithoutCollision ==
    (graphPc = "again" /\ SeriesWithCategory(graphParsed) /\ NoKeyCollision(graphParsed))
        => graphAgain = graphResult


\* The payloads C4 speaks of: scatter, with both axis-name hints naming keys
\* of the first record.
ScatterWithHints(gd) ==
    /\ sanitizes(gd)
    /\ graphType(gd) = S_scatter
    /\ hintKey(gd.options.xAxisName, firstPoint(gd)) # <<>>
    /\ hintKey(gd.options.yAxisName, firstPoint(gd)) # <<>>

\* The number a value stands for: itself, or what its digits read as.
IsNumberOf(out, in) == out.t = "number" /\ out = coerce(in)

\* C4: for a scatter payload whose axis-name hints name keys of the first
\* record, every returned record has as x the number under the x-source key
\* of the original record and as y the number under its y-source key.
C4_ScatterXYFromSources ==
    (graphPc = "done" /\ ScatterWithHints(graphParsed)) =>
        \A i \in 1..Len(graphParsed.data.items) :
            LET in == graphParsed.data.items[i]
                out == graphResult.data.items[i]
            IN  in.isObject =>
                    /\ IsNumberOf(Get(out.kv, K_x), Get(in.kv, graphParsed.options.xAxisName.s))
                    /\ IsNumberOf(Get(out.kv, K_y), Get(in.kv, graphParsed.options.yAxisName.s))

\* The same, for records whose only keys named x or y are the sources.
C4_XYFromSourcesUnlessOverwritten ==
    (graphPc = "done" /\ ScatterWithHints(graphParsed)) =>
        \A i \in 1..Len(graphParsed.data.items) :
            LET in == graphParsed.data.items[i]
                out == graphResult.data.items[i]
                xs == graphParsed.options.xAxisName.s
                ys == graphParsed.options.yAxisName.s
                strays == {k \in {K_x, K_y} : hasOwnProperty(in.kv, k) /\ k # xs /\ k # ys}
            IN  (in.isObject /\ strays = {}) =>
                    /\ IsNumberOf(Get(out.kv, K_x), Get(in.kv, xs))
                    /\ IsNumberOf(Get(out.kv, K_y), Get(in.kv, ys))


----------------------------------------------------------------------------
(* Reply texts.  A text is a sequence of segments: prose (words with no    *)
(* marker and no brace in them), blanks, line breaks, the two opening      *)
(* delimiters, the closing delimiter, and JSON literals.  A literal is     *)
(* [ok, obj, form]: whether JSON.parse accepts its text, the object it     *)
(* parses to, and whether the text is as the model wrote it ("written") or *)
(* the output of JSON.stringify(obj, null, 2) ("stringified").             *)

NoLiteral == [ok |-> FALSE, obj |-> EmptyObject, form |-> "none"]
Seg(k) == [k |-> k, lit |-> NoLiteral]
Prose == Seg("prose")
Blank == Seg("blank")
LineBreak == Seg("newline")
GraphOpen == Seg("<!--GRAPH_DATA:")
TableOpen == Seg("<!--TABLE_DATA:")
Close == Seg("-->")
Written(obj) == [k |-> "json", lit |-> [ok |-> TRUE, obj |-> obj, form |-> "written"]]
Malformed == [k |-> "json", lit |-> [ok |-> FALSE, obj |-> EmptyObject, form |-> "written"]]

isSpace(seg) == seg.k \in {"blank", "newline"}

\* String.prototype.trim
RECURSIVE trimStart(_)
trimStart(t) == IF Len(t) > 0 /\ isSpace(t[1]) THEN trimStart(Tail(t)) ELSE t
RECURSIVE trimEnd(_)
trimEnd(t) ==
    IF Len(t) > 0 /\ isSpace(t[Len(t)]) THEN trimEnd(SubSeq(t, 1, Len(t) - 1)) ELSE t
trim(t) == trimEnd(trimStart(t))

\* JSON.parse of a piece of text: it succeeds when the text is one
\* well-formed literal with nothing but white space around it.
JSONparse(t) ==
    LET u == trim(t)
    IN  IF Len(u) = 1 /\ u[1].k = "json" /\ u[1].lit.ok
        THEN [ok |-> TRUE, obj |-> u[1].lit.obj]
        ELSE [ok |-> FALSE, obj |-> EmptyObject]

\* JSON.stringify(obj, null, 2)
JSONstringify(obj) == [k |-> "json", lit |-> [ok |-> TRUE, obj |-> obj, form |-> "stringified"]]

\* text.match(/<!--XXX_DATA:([\s\S]*?)-->/): the first opening delimiter that
\* has a closing delimiter after it, up to the first such closing delimiter.
Positions(t, k) == {i \in 1..Len(t) : t[i].k = k}
LeastOf(S) == CHOOSE i \in S : \A j \in S : i <= j
markerMatch(t, open) ==
    LET starts == {i \in Positions(t, open) : \E j \in Positions(t, "-->") : j > i}
    IN  IF starts = {} THEN [found |-> FALSE, from |-> 0, to |-> 0, group |-> <<>>]
        ELSE LET i == LeastOf(starts)
                 j == LeastOf({c \in Positions(t, "-->") : c > i})
             IN  [found |-> TRUE, from |-> i, to |-> j, group |-> SubSeq(t, i + 1, j - 1)]

----------------------------------------------------------------------------
(* String.prototype.replace(regex, replacement) reads the replacement      *)
(* string for patterns: $$ is one $, $& the matched text, $1 the first     *)
(* group (the regular expressions here have one group, so $10 is $1 and a  *)
(* 0, and $0, $2, ... stay as written).                                    *)

\* The characters of a string of the replacement, from position i on, with
\* every $$ read as $ ; inserts is whether a $& or $1 puts matched text in.
RECURSIVE expandFrom(_, _)
expandFrom(cs, i) ==
    IF i > Len(cs) THEN [out |-> <<>>, inserts |-> FALSE]
    ELSE IF cs[i] = "$" /\ i < Len(cs) /\ cs[i + 1] = "$"
         THEN LET r == expandFrom(cs, i + 2)
              IN  [out |-> <<"$">> \o r.out, inserts |-> r.inserts]
    ELSE IF cs[i] = "$" /\ i < Len(cs) /\ cs[i + 1] \in {"&", "1"}
         THEN LET r == expandFrom(cs, i + 2)
              IN  [out |-> r.out, inserts |-> TRUE]
    ELSE IF cs[i] = "$" /\ i + 1 < Len(cs) /\ cs[i + 1] = "0" /\ cs[i + 2] = "1"
         THEN LET r == expandFrom(cs, i + 3)
              IN  [out |-> r.out, inserts |-> TRUE]
    ELSE LET r == expandFrom(cs, i + 1)
         IN  [out |-> <<cs[i]>> \o r.out, inserts |-> r.inserts]

expandString(v) == IF v.t = "string" THEN Str(expandFrom(v.s, 1).out) ELSE v
insertsMatch(v) == v.t = "string" /\ expandFrom(v.s, 1).inserts

\* The scalars of an object that JSON.stringify writes as strings.
expandPoint(pt) ==
    [pt EXCEPT !.kv = [i \in 1..Len(pt.kv) |->
                          Entry(expandFrom(pt.kv[i].k, 1).out, expandString(pt.kv[i].v))]]
expandRow(row) == [row EXCEPT !.cells = [i \in 1..Len(row.cells) |-> expandString(row.cells[i])]]

\* The object the replaced text holds between the delimiters, when the
\* replacement was `<!--XXX_DATA:${JSON.stringify(obj, null, 2)}-->`.
expandObject(obj) ==
    [obj EXCEPT
        !.type = expandString(@),
        !.title = expandString(@),
        !.options.xAxisName = expandString(@),
        !.options.yAxisName = expandString(@),
        !.options.chartConfig.items =
            [i \in 1..Len(obj.options.chartConfig.items) |->
                [dataKey |-> expandString(obj.options.chartConfig.items[i].dataKey)]],
        !.data.items = [i \in 1..Len(obj.data.items) |-> expandPoint(obj.data.items[i])],
        !.headers.items = [i \in 1..Len(obj.headers.items) |-> expandString(obj.headers.items[i])],
        !.rows.items = [i \in 1..Len(obj.rows.items) |-> expandRow(obj.rows.items[i])]]

\* Some string of the object holds a $& or $1: text of the match, with its
\* double quotes, lands inside a JSON string and the literal is no longer
\* well formed.
objectInserts(obj) ==
    \/ insertsMatch(obj.type) \/ insertsMatch(obj.title)
    \/ insertsMatch(obj.options.xAxisName) \/ insertsMatch(obj.options.yAxisName)
    \/ \E i \in 1..Len(obj.options.chartConfig.items) :
          insertsMatch(obj.options.chartConfig.items[i].dataKey)
    \/ \E i \in 1..Len(obj.data.items) : \E j \in 1..Len(obj.data.items[i].kv) :
          \/ insertsMatch(obj.data.items[i].kv[j].v)
          \/ expandFrom(obj.data.items[i].kv[j].k, 1).inserts
    \/ \E i \in 1..Len(obj.headers.items) : insertsMatch(obj.headers.items[i])
    \/ \E i \in 1..Len(obj.rows.items) : \E j \in 1..Len(obj.rows.items[i].cells) :
          insertsMatch(obj.rows.items[i].cells[j])

\* The literal that stands between the delimiters after the replacement.
replacementLiteral(obj) ==
    [k |-> "json",
     lit |-> [ok |-> ~objectInserts(obj), obj |-> expandObject(obj), form |-> "stringified"]]

\* content.replace(markerRegex, `${open}${JSON.stringify(obj, null, 2)}-->`)
replaceMarker(t, open, obj) ==
    LET m == markerMatch(t, open)
    IN  SubSeq(t, 1, m.from - 1) \o <<Seg(open), replacementLiteral(obj), Close>>
            \o SubSeq(t, m.to + 1, Len(t))


----------------------------------------------------------------------------
(* processAndEnsureDataFormatting                                          *)

\* The outcome of a try block: the text it returns, or an exception.
Returned(t) == [threw |-> FALSE, text |-> t]
Thrown == [threw |-> TRUE, text |-> <<>>]

\* try { ... } catch (error) { console.warn(...); return content; }
caught(attempt, content) == IF attempt.threw THEN Returned(content) ELSE attempt

\* The try block of the graph-marker case.
graphMarkerAttempt(content) ==
    LET parsed == JSONparse(trim(markerMatch(content, "<!--GRAPH_DATA:").group))
    IN  IF ~parsed.ok \/ typeThrows(parsed.obj) THEN Thrown
        ELSE Returned(replaceMarker(content, "<!--GRAPH_DATA:", sanitizeGraphData(parsed.obj)))

\* The try block of the table-marker case.
tableMarkerAttempt(content) ==
    LET parsed == JSONparse(trim(markerMatch(content, "<!--TABLE_DATA:").group))
    IN  IF ~parsed.ok THEN Thrown
        ELSE Returned(replaceMarker(content, "<!--TABLE_DATA:", sanitizeTableData(parsed.obj)))

\* The pattern for unmarked JSON wants one of the words "type", "data",
\* "options", "title", "headers", "rows" between the braces.  A literal that
\* does not parse is taken to be a data block gone wrong, with such a word.
namesDataProperty(lit) ==
    \/ ~lit.ok
    \/ lit.obj.type.t # "undefined" \/ lit.obj.title.t # "undefined"
    \/ lit.obj.data.kind # "undefined" \/ lit.obj.options.present
    \/ lit.obj.headers.kind # "undefined" \/ lit.obj.rows.kind # "undefined"

\* ^\s* before the opening brace and \s*$ after the closing one (flag m):
\* nothing but blanks between the brace and the ends of its line.
atLineStart(t, i) ==
    \A j \in 1..(i - 1) : (\A h \in j..(i - 1) : t[h].k # "newline") => t[j].k = "blank"
atLineEnd(t, i) ==
    \A j \in (i + 1)..Len(t) : (\A h \in (i + 1)..j : t[h].k # "newline") => t[j].k = "blank"

\* potentialJsonRegex.exec from position p on, for literals written on one
\* line: the match opens at the first literal that begins its line and runs,
\* lazily, to the first literal that ends its line.  [found, from, to].
potentialMatch(t, p) ==
    LET ends(i) == {j \in Positions(t, "json") :
                       /\ j >= i /\ atLineEnd(t, j)
                       /\ \E h \in i..j : t[h].k = "json" /\ namesDataProperty(t[h].lit)}
        starts == {i \in Positions(t, "json") : i >= p /\ atLineStart(t, i) /\ ends(i) # {}}
    IN  IF starts = {} THEN [found |-> FALSE, from |-> 0, to |-> 0]
        ELSE [found |-> TRUE, from |-> LeastOf(starts), to |-> LeastOf(ends(LeastOf(starts)))]

\* The shapes the scan accepts.
graphShape(obj) == Truthy(obj.type) /\ isArray(obj.data)
tableShape(obj) == isArray(obj.headers) /\ isArray(obj.rows)

\* The while loop from position p on: the place of the first match that
\* parses and has one of the shapes (0: there is none).
RECURSIVE scanFrom(_, _)
scanFrom(t, p) ==
    LET m == potentialMatch(t, p)
    IN  IF ~m.found THEN 0
        ELSE IF /\ m.from = m.to /\ t[m.from].lit.ok
                /\ (graphShape(t[m.from].lit.obj) \/ tableShape(t[m.from].lit.obj))
             THEN m.from
        ELSE scanFrom(t, m.to + 1)

bestMatch(t) == scanFrom(t, 1)

\* content.replace(originalString, ''): the first occurrence of the text.
removeFirst(t, seg) ==
    LET i == LeastOf({j \in 1..Len(t) : t[j] = seg})
    IN  SubSeq(t, 1, i - 1) \o SubSeq(t, i + 1, Len(t))

\* The try block of the unmarked case, for the best match at i.
unmarkedAttempt(content, i) ==
    LET obj == content[i].lit.obj
        asGraph == graphShape(obj)
    IN  IF asGraph /\ typeThrows(obj) THEN Thrown
        ELSE Returned(
                 trim(removeFirst(content, content[i]))
                 \o <<LineBreak, LineBreak>>
                 \o <<IF asGraph THEN GraphOpen ELSE TableOpen,
                      JSONstringify(IF asGraph THEN sanitizeGraphData(obj)
                                    ELSE sanitizeTableData(obj)),
                      Close>>)

\* Which case of the function a text falls into.
processCase(content) ==
    IF markerMatch(content, "<!--GRAPH_DATA:").found THEN "graph marker"
    ELSE IF markerMatch(content, "<!--TABLE_DATA:").found THEN "table marker"
    ELSE IF bestMatch(content) # 0 THEN "unmarked"
    ELSE "none"

\* A Case 4 that tidies the text it returns.
unmatchedTrimmed(content) == Returned(trim(content))

\* Case 4: no markers, no suitable unmarked JSON.
unmatched(content) == Returned(content)

\* What the function does with a text: the text it returns, or an exception.
processAndEnsureDataFormatting(content) ==
    CASE processCase(content) = "graph marker" ->
            caught(graphMarkerAttempt(content), content)
      [] processCase(content) = "table marker" ->
            caught(tableMarkerAttempt(content), content)
      [] processCase(content) = "unmarked" ->
            caught(unmarkedAttempt(content, bestMatch(content)), content)
      [] OTHER -> unmatched(content)

----------------------------------------------------------------------------
(* callChatApi: the marker parsing of the client.                          *)

\* content.replace(/<!--XXX_DATA:(.*?)-->/s, '').trim()
withoutMarker(t, open) ==
    LET m == markerMatch(t, open)
    IN  trim(SubSeq(t, 1, m.from - 1) \o SubSeq(t, m.to + 1, Len(t)))

\* "Parse Graph Data": the object to attach, if the first graph marker holds
\* JSON with a truthy type and a truthy data.
clientGraph(content) ==
    LET m == markerMatch(content, "<!--GRAPH_DATA:")
        parsed == JSONparse(m.group)
    IN  IF /\ m.found /\ Len(m.group) > 0 /\ parsed.ok
           /\ Truthy(parsed.obj.type) /\ parsed.obj.data.kind # "undefined"
        THEN [attached |-> TRUE, obj |-> parsed.obj]
        ELSE [attached |-> FALSE, obj |-> EmptyObject]

\* "Parse Table Data (only if graph not found)".
clientTable(content) ==
    LET m == markerMatch(content, "<!--TABLE_DATA:")
        parsed == JSONparse(m.group)
    IN  IF /\ ~clientGraph(content).attached
           /\ m.found /\ Len(m.group) > 0 /\ parsed.ok
           /\ isArray(parsed.obj.headers) /\ isArray(parsed.obj.rows)
        THEN [attached |-> TRUE, obj |-> parsed.obj]
        ELSE [attached |-> FALSE, obj |-> EmptyObject]

\* The assistant message built from the reply text.
parseReply(content) ==
    LET g == clientGraph(content)
        tb == clientTable(content)
        shown == IF g.attached THEN withoutMarker(content, "<!--GRAPH_DATA:")
                 ELSE IF tb.attached THEN withoutMarker(content, "<!--TABLE_DATA:")
                 ELSE content
    IN  [role |-> "assistant", content |-> trim(shown), graphData |-> g, tableData |-> tb]


----------------------------------------------------------------------------
(* The replies: up to MaxBlocks blocks, one to a line, between optional     *)
(* opening and closing prose.                                              *)

MaxBlocks == 2

K_A == <<"A">>
K_B == <<"B">>
V_10 == Str(<<"1", "0">>)
V_Dollars == Str(<<"$", "$">>)
V_Group == Str(<<"$", "1">>)

PieRecord(name, value) == Point(<<Entry(K_name, name), Entry(K_value, value)>>)

\* The pie payloads: one record, or a second one behind a first, which may be
\* a value that is no object.
PieData ==
    LET records == {PieRecord(n, v) : n \in {V_A, V_Dollars, V_Group}, v \in {V_10, Num(7), V_A}}
    IN  {<<r>> : r \in records}
        \cup {<<NonObjectPoint, PieRecord(V_A, V_10)>>,
              <<PieRecord(V_A, Num(7)), PieRecord(V_Group, V_10)>>}
PiePayloads == {Graph(Str(S_pie), Array(d), NoOptions) : d \in PieData}

ExampleTable ==
    Table(Array(<<Str(K_A), Str(K_B)>>),
          Array(<<ArrayRow(<<Str(<<"x">>)>>), ArrayRow(<<Num(1), Num(2), Num(3)>>)>>),
          NoOptions)

OtherPayloads ==
    {Graph(Num(5), Array(<<Point(<<Entry(K_c, Num(1))>>)>>), NoOptions),
     Graph(Str(S_Bar), Array(<<Point(<<Entry(K_name, V_A), Entry(K_a_b, V_20)>>)>>), NoOptions),
     Graph(Str(S_pie), NotAnArray, NoOptions),
     ExampleTable,
     Table(Array(<<V_Group>>), Array(<<ArrayRow(<<Num(1)>>)>>), NoOptions),
     Table(Array(<<V_A>>), NotAnArray, NoOptions),
     [EmptyObject EXCEPT !.title = V_A]}

ReplyLiterals == {Malformed} \cup {Written(obj) : obj \in PiePayloads \cup OtherPayloads}

\* The ways a literal stands in a reply: in a graph marker (with or without
\* blanks around it), in a table marker, on a line of its own, after prose
\* on the same line, before prose on the same line, or behind an opening
\* delimiter that is never closed.
BlocksOf(lit) ==
    {<<GraphOpen, lit, Close>>, <<GraphOpen, Blank, lit, Blank, Close>>,
     <<TableOpen, lit, Close>>, <<lit>>, <<Prose, Blank, lit>>, <<lit, Blank, Prose>>,
     <<GraphOpen, lit>>}

FirstBlocks == UNION {BlocksOf(lit) : lit \in ReplyLiterals} \cup {<<GraphOpen, Close>>, <<Prose>>}

FurtherBlocks ==
    {<<TableOpen, Written(ExampleTable), Close>>,
     <<GraphOpen, Written(Graph(Str(S_pie), Array(<<PieRecord(V_A, V_10)>>), NoOptions)), Close>>,
     <<Written(ExampleTable)>>,
     <<Prose>>}

Openings == {<<>>, <<Blank>>, <<Prose, LineBreak>>}
Closings == {<<>>, <<LineBreak>>, <<LineBreak, Prose>>}

RECURSIVE joinLines(_)
joinLines(blocks) ==
    IF Len(blocks) = 0 THEN <<>>
    ELSE IF Len(blocks) = 1 THEN blocks[1]
    ELSE blocks[1] \o <<LineBreak>> \o joinLines(Tail(blocks))

Reply(text) ==
    \E first \in FirstBlocks, more \in SeqUpTo(FurtherBlocks, MaxBlocks - 1),
       opening \in Openings, closing \in Closings :
        text = opening \o joinLines(<<first>> \o more) \o closing

ReplyInit ==
    /\ Reply(originalContent)
    /\ processedContent = [threw |-> FALSE, text |-> <<>>]
    /\ assistantMessage = [role |-> "none", content |-> <<>>,
                           graphData |-> [attached |-> FALSE, obj |-> EmptyObject],
                           tableData |-> [attached |-> FALSE, obj |-> EmptyObject]]
    /\ replyPc = "received"
    /\ TableIdle
    /\ GraphIdle
    /\ ServerIdle
    /\ ClientIdle

\* route.ts, POST: processedContent = processAndEnsureDataFormatting(originalContent).
\* An exception would leave for the handler's catch block.
ProcessReply ==
    /\ replyPc = "received"
    /\ processedContent' = processAndEnsureDataFormatting(originalContent)
    /\ replyPc' = IF processedContent'.threw THEN "failed" ELSE "processed"
    /\ UNCHANGED <<originalContent, assistantMessage, tableVars, graphVars, serverVars, clientVars>>

\* Chatbot.tsx, callChatApi: the client builds the assistant message from the
\* content of the response.
AttachReply ==
    /\ replyPc = "processed"
    /\ assistantMessage' = parseReply(processedContent.text)
    /\ replyPc' = "attached"
    /\ UNCHANGED <<originalContent, processedContent, tableVars, graphVars, serverVars, clientVars>>

ReplyNext == ProcessReply \/ AttachReply

SpecReply == ReplyInit /\ [][ReplyNext]_vars

----------------------------------------------------------------------------
(* unnamed/part_002: GraphRenderer, the component that checks a graph      *)
(* payload once more and hands it to a chart of the plotting library.      *)

\* type?.toLowerCase() || 'unknown', for a type that is a string or missing.
chartTypeLower(props) ==
    IF props.type.t = "string" /\ Len(props.type.s) > 0
    THEN toLowerCase(props.type.s)
    ELSE <<"u", "n", "k", "n", "o", "w", "n">>

\* The category key of the line, bar, area and composed case: name, or the
\* first key of the first item that holds a string (<<>>: there is none).
rendererCategoryKey(firstItem) ==
    LET strs == SelectSeq(Keys(firstItem), LAMBDA k : Get(firstItem, k).t = "string")
    IN  IF hasOwnProperty(firstItem, K_name) THEN K_name
        ELSE IF Len(strs) > 0 THEN strs[1] ELSE <<>>

\* firstItemKeys.filter(key => key !== categoryKey && typeof firstItem[key] === 'number')
dataKeys(firstItem, cat) ==
    SelectSeq(Keys(firstItem), LAMBDA k : k # cat /\ Get(firstItem, k).t = "number")

\* options.chartConfig.map(c => c?.dataKey).filter(Boolean)
configuredKeys(options) ==
    LET keys == [i \in 1..Len(options.chartConfig.items) |-> options.chartConfig.items[i].dataKey]
    IN  SelectSeq(keys, LAMBDA k : Truthy(k))

\* The composed case sets validationError for the chartConfig.
composedError(firstItem, options) ==
    \/ ~isArray(options.chartConfig)
    \/ Len(options.chartConfig.items) = 0
    \/ Len(configuredKeys(options)) = 0
    \/ \E i \in 1..Len(configuredKeys(options)) :
          ~hasOwnProperty(firstItem, configuredKeys(options)[i].s)

\* Section 2 ends with a validationError that is not null.
validationError(props) ==
    LET firstItem == props.data.items[1].kv
        t == chartTypeLower(props)
        cat == rendererCategoryKey(firstItem)
    IN  \/ Len(firstItem) = 0
        \/ t = S_pie /\ \/ ~hasOwnProperty(firstItem, K_name)
                        \/ ~hasOwnProperty(firstItem, K_value)
                        \/ Get(firstItem, K_value).t # "number"
        \/ t = S_scatter /\ \/ ~hasOwnProperty(firstItem, K_x)
                            \/ ~hasOwnProperty(firstItem, K_y)
                            \/ Get(firstItem, K_x).t # "number"
                            \/ Get(firstItem, K_y).t # "number"
        \/ t \in {S_line, S_bar, S_area, S_composed}
              /\ \/ cat = <<>>
                 \/ Len(dataKeys(firstItem, cat)) = 0
                 \/ t = S_composed /\ composedError(firstItem, props.options)
        \/ t \notin {S_pie, S_scatter, S_line, S_bar, S_area, S_composed}

\* What the component shows: a notice in place of the chart, the chart with
\* data handed to it, or nothing because the render throws a TypeError (the
\* type is a number and has no toLowerCase).
GraphRenderer(props) ==
    IF ~isArray(props.data) \/ Len(props.data.items) = 0 THEN "notice"
    ELSE IF ~props.data.items[1].isObject THEN "notice"
    ELSE IF props.type.t = "number" THEN "throws"
    ELSE IF validationError(props) THEN "notice"
    ELSE "chart"

\* Payloads for the renderer: records over the keys the pie and scatter
\* cases ask for, with a number or a text under each, and further records
\* that have other values under the same keys or lack the first key.
RenderedKeys == {K_name, K_value, K_x, K_y}
RenderedValues == {Num(1), V_A}
RenderedTypes ==
    {Str(S_pie), Str(S_scatter), Str(S_line), Str(S_Bar), Str(<<"r", "a", "d", "a", "r">>)}
LaterItems(kv) == FurtherPoints(kv) \cup {Point(Tail(kv))}
RenderedPayload(p) ==
    \E kv \in RecordsOver(RenderedKeys, RenderedValues, MaxKeys), t \in RenderedTypes :
        \E rest \in SeqUpTo(LaterItems(kv), MaxRecords - 1) :
            p = Graph(t, Array(<<Point(kv)>> \o rest), NoOptions)

RendererInit ==
    /\ \/ RenderedPayload(graphParsed)
       \/ ComposedPayload(graphParsed)
       \/ graphParsed \in GuardedPayloads
    /\ graphData = graphParsed
    /\ graphResult = EmptyObject
    /\ graphAgain = EmptyObject
    /\ graphPc = "start"
    /\ rendered = NotRendered
    /\ TableIdle
    /\ ReplyIdle
    /\ ServerIdle
    /\ ClientIdle

\* The message's graphData, which is what sanitizeGraphData returned, or the
\* payload as written when it threw, is given to GraphRenderer (the client
\* attaches a payload that has a type and data).
RenderGraph ==
    /\ graphPc \in {"done", "threw"}
    /\ rendered = NotRendered
    /\ LET props == IF graphPc = "done" THEN graphResult ELSE graphParsed
       IN  /\ Truthy(props.type) /\ props.data.kind # "undefined"
           /\ rendered' = [props |-> props, outcome |-> GraphRenderer(props)]
    /\ UNCHANGED <<graphParsed, graphData, graphResult, graphAgain, graphPc, tableVars,
                   replyVars, serverVars, clientVars>>

RendererNext == SanitizeGraph \/ SanitizeGraphThrows \/ RenderGraph

SpecRenderer == RendererInit /\ [][RendererNext]_vars


----------------------------------------------------------------------------
(* Claims about the reply pipeline.                                        *)

Processed == replyPc \in {"processed", "attached"}

\* What stands in the first graph marker of a text, parsed.
graphMarkerOf(text) == JSONparse(markerMatch(text, "<!--GRAPH_DATA:").group)
tableMarkerOf(text) == JSONparse(markerMatch(text, "<!--TABLE_DATA:").group)

\* The reply has an explicit graph marker that holds a pie payload.
PieMarker(text) ==
    /\ markerMatch(text, "<!--GRAPH_DATA:").found
    /\ graphMarkerOf(text).ok
    /\ graphMarkerOf(text).obj.type.t = "string"
    /\ graphType(graphMarkerOf(text).obj) = S_pie
    /\ isArray(graphMarkerOf(text).obj.data)

\* Record out is record in with the numeric-looking string under value made
\* a number and the name as it was.
PieRecordCoerced(in, out) ==
    /\ out.isObject = in.isObject
    /\ in.isObject =>
        /\ Get(out.kv, K_name) = Get(in.kv, K_name)
        /\ Get(out.kv, K_value) = coerce(Get(in.kv, K_value))

\* C5: for a reply with an explicit graph marker holding a pie payload, the
\* processed text holds in its marker a payload in which every record has the
\* numeric-looking string under value coerced to its number ("10" to 10) and
\* the name unchanged.
C5_PieValuesCoerced ==
    (Processed /\ PieMarker(originalContent)) =>
        LET in == graphMarkerOf(originalContent).obj
            out == graphMarkerOf(processedContent.text)
        IN  /\ ~processedContent.threw
            /\ out.ok
            /\ Len(out.obj.data.items) = Len(in.data.items)
            /\ \A i \in 1..Len(in.data.items) :
                  PieRecordCoerced(in.data.items[i], out.obj.data.items[i])

\* The same, for the payloads that the sanitizer takes up (the first element
\* of data is an object) and whose strings hold no $-pattern of
\* String.prototype.replace.
C5_CoercedWithoutPatterns ==
    (/\ Processed /\ PieMarker(originalContent)
     /\ hasFirstPoint(graphMarkerOf(originalContent).obj)
     /\ expandObject(graphMarkerOf(originalContent).obj) = graphMarkerOf(originalContent).obj) =>
        LET in == graphMarkerOf(originalContent).obj
            out == graphMarkerOf(processedContent.text)
        IN  /\ ~processedContent.threw
            /\ out.ok
            /\ Len(out.obj.data.items) = Len(in.data.items)
            /\ \A i \in 1..Len(in.data.items) :
                  PieRecordCoerced(in.data.items[i], out.obj.data.items[i])

C5_SpecExample ==
    /\ Processed
    /\ graphMarkerOf(originalContent).obj.data = Array(<<PieRecord(V_A, V_10)>>)
    /\ graphMarkerOf(processedContent.text).obj.data = Array(<<PieRecord(V_A, Num(10))>>)

\* A text with no graph marker, no table marker and no JSON literal.
PlainText(text) ==
    /\ ~markerMatch(text, "<!--GRAPH_DATA:").found
    /\ ~markerMatch(text, "<!--TABLE_DATA:").found
    /\ Positions(text, "json") = {}

\* C6: for a reply with no graph marker, no table marker and no JSON-shaped
\* substring, processAndEnsureDataFormatting returns the text unchanged and
\* the client attaches neither graphData nor tableData to the message.
C6_PlainTextUntouched ==
    PlainText(originalContent) =>
        /\ Processed => (~processedContent.threw /\ processedContent.text = originalContent)
        /\ replyPc = "attached" =>
              /\ ~assistantMessage.graphData.attached
              /\ ~assistantMessage.tableData.attached

C6_Witness ==
    /\ replyPc = "attached"
    /\ PlainText(originalContent)
    /\ originalContent = <<Blank, Prose, LineBreak, Prose, LineBreak>>
    /\ processedContent.text = originalContent
    /\ assistantMessage.content = <<Prose, LineBreak, Prose>>

\* The first graph marker of the reply encloses text that does not parse, or
\* a payload on which the sanitizer fails.
GraphMarkerFails(text) ==
    /\ markerMatch(text, "<!--GRAPH_DATA:").found
    /\ \/ ~graphMarkerOf(text).ok
       \/ typeThrows(graphMarkerOf(text).obj)

\* C7: for a reply whose first graph marker encloses text that is not
\* parseable JSON, or a payload that makes the sanitizer fail, the function
\* returns exactly the original text and raises no exception, and no graph
\* payload is attached to the message.
C7_FailedMarkerNoPayload ==
    GraphMarkerFails(originalContent) =>
        /\ Processed => (~processedContent.threw /\ processedContent.text = originalContent)
        /\ replyPc = "attached" => ~assistantMessage.graphData.attached

\* The part of C7 about the function, and the part about the client for the
\* markers whose text does not parse.
C7_FailedMarkerTextReturned ==
    (GraphMarkerFails(originalContent) /\ Processed) =>
        (~processedContent.threw /\ processedContent.text = originalContent)
C7_UnparseableMarkerNoPayload ==
    (/\ markerMatch(originalContent, "<!--GRAPH_DATA:").found
     /\ ~graphMarkerOf(originalContent).ok
     /\ replyPc = "attached") => ~assistantMessage.graphData.attached

\* The reply has both markers, and the graph marker holds a valid graph object.
BothMarkers(text) ==
    /\ markerMatch(text, "<!--GRAPH_DATA:").found
    /\ markerMatch(text, "<!--TABLE_DATA:").found
    /\ graphMarkerOf(text).ok
    /\ validGraph(graphMarkerOf(text).obj)
    /\ graphMarkerOf(text).obj.type.t = "string"

\* C8: an assistant message never carries both graphData and tableData; when
\* the reply has both a graph marker and a table marker and the graph marker
\* holds a valid graph object, the graph payload is attached, the table
\* payload is not, and the server leaves the table marker as it was.
C8_GraphTakesPriority ==
    /\ ~(assistantMessage.graphData.attached /\ assistantMessage.tableData.attached)
    /\ (BothMarkers(originalContent) /\ Processed) =>
          markerMatch(processedContent.text, "<!--TABLE_DATA:").group
              = markerMatch(originalContent, "<!--TABLE_DATA:").group
    /\ (BothMarkers(originalContent) /\ replyPc = "attached") =>
          /\ assistantMessage.graphData.attached
          /\ ~assistantMessage.tableData.attached

\* The first part of C8 alone, and the whole of it for the graph objects
\* whose strings hold no $& and no $1.
C8_AtMostOnePayload ==
    ~(assistantMessage.graphData.attached /\ assistantMessage.tableData.attached)
C8_PriorityWithoutPatterns ==
    (/\ BothMarkers(originalContent) /\ replyPc = "attached"
     /\ ~objectInserts(graphMarkerOf(originalContent).obj)) =>
          /\ assistantMessage.graphData.attached
          /\ ~assistantMessage.tableData.attached
          /\ markerMatch(processedContent.text, "<!--TABLE_DATA:").group
                = markerMatch(originalContent, "<!--TABLE_DATA:").group


----------------------------------------------------------------------------
(* POST /api/chat.  The handler runs from one await to the next without    *)
(* interruption; between awaits the steps of other requests may run.       *)

MaxMessages == 2
MaxTime == 4
MaxSubmissions == 2

\* const PDF_CACHE_DURATION = 10 * 60 * 1000, the clock counting units of
\* five minutes.
PDF_CACHE_DURATION == 2

\* The entries of a messages array: objects with a role or without one, and null.
Message(role) == [isNull |-> FALSE, role |-> role, content |-> 0]
NullEntry == [isNull |-> TRUE, role |-> "undefined", content |-> 0]
Entries == {Message("user"), Message("assistant"), Message("undefined"), NullEntry}

\* A conversation of n messages, user first, in turns.
Conversation(n) == [i \in 1..n |-> IF i % 2 = 1 THEN Message("user") ELSE Message("assistant")]

\* The messages with their texts: the i-th message says i.
Numbered(items) ==
    [i \in 1..Len(items) |-> IF items[i].isNull THEN items[i] ELSE [items[i] EXCEPT !.content = i]]

\* The request bodies: text that is no JSON, the JSON null, and objects whose
\* messages is missing, null, a string, or an array.
Body(kind, items) == [parses |-> TRUE, isNull |-> FALSE, messages |-> [kind |-> kind, items |-> items]]
Bodies ==
    {[parses |-> FALSE, isNull |-> FALSE, messages |-> [kind |-> "undefined", items |-> <<>>]],
     [parses |-> TRUE, isNull |-> TRUE, messages |-> [kind |-> "undefined", items |-> <<>>]],
     Body("undefined", <<>>), Body("null", <<>>), Body("string", <<>>), Body("array", <<>>)}
    \cup {Body("array", Numbered(Conversation(n) \o <<e>>)) : n \in 0..(MaxMessages - 1), e \in Entries}

\* !messages || !Array.isArray(messages) || messages.length === 0
invalidMessages(posted) == posted.kind # "array" \/ Len(posted.items) = 0

\* Error responses: NextResponse.json({ error, details }, { status }).
ErrorResponse(status, error, details) == [status |-> status, error |-> error, details |-> details]
OkResponse == [status |-> 200, error |-> "", details |-> ""]

\* The catch block of POST: every exception becomes a 500.
fatalError(errorMessage) == ErrorResponse(500, "Internal Server Error", errorMessage)

\* What the try block throws while it reads and validates the body, as the
\* response of the catch block: the body is no JSON, `const { messages }`
\* destructures null, or lastMessage.role reads a property of null.
validationThrows(body) ==
    IF ~body.parses THEN fatalError("request.json() rejected")
    ELSE IF body.isNull THEN fatalError("Cannot destructure property 'messages' of null")
    ELSE fatalError("Cannot read properties of null (reading 'role')")

\* The input validation: [passes, response].
validate(body) ==
    IF ~body.parses \/ body.isNull
    THEN [passes |-> FALSE, response |-> validationThrows(body)]
    ELSE IF invalidMessages(body.messages)
    THEN [passes |-> FALSE,
          response |-> ErrorResponse(400, "Invalid request body", "Missing or invalid messages array")]
    ELSE LET lastMessage == body.messages.items[Len(body.messages.items)]
         IN  IF lastMessage.isNull
             THEN [passes |-> FALSE, response |-> validationThrows(body)]
             ELSE IF lastMessage.role # "user"
             THEN [passes |-> FALSE,
                   response |-> ErrorResponse(400, "Invalid message sequence",
                                              "Last message must be from user")]
             ELSE [passes |-> TRUE, response |-> NoResponse]

\* extractPdfContent: the cache is fresh.
cacheFresh(cache, timestamp, time) ==
    /\ Truthy(cache) /\ Truthy(timestamp)
    /\ time - timestamp.n < PDF_CACHE_DURATION

\* A load that takes whatever pdfData.content is, without the typeof test.
extractPdfContentUnchecked(cache, timestamp, time, data) ==
    IF cacheFresh(cache, timestamp, time)
    THEN [threw |-> FALSE, content |-> cache, cache |-> cache, timestamp |-> timestamp,
          read |-> FALSE]
    ELSE [threw |-> FALSE, content |-> data, cache |-> data, timestamp |-> Num(time),
          read |-> TRUE]

\* extractPdfContent at a given time: [threw, content, cache, timestamp, read],
\* read being whether pdfData.content was looked at.
extractPdfContent(cache, timestamp, time, data) ==
    IF cacheFresh(cache, timestamp, time)
    THEN [threw |-> FALSE, content |-> cache, cache |-> cache, timestamp |-> timestamp,
          read |-> FALSE]
    ELSE IF data.t # "string"
    THEN [threw |-> TRUE, content |-> Null, cache |-> Null, timestamp |-> Null, read |-> TRUE]
    ELSE [threw |-> FALSE, content |-> data, cache |-> data, timestamp |-> Num(time),
          read |-> TRUE]

\* The system message.
systemMessage == [isNull |-> FALSE, role |-> "system", content |-> 0]

\* A list of the system message and the caller's last message only.
lastMessageWithContext(posted) == <<systemMessage, posted[Len(posted)]>>

\* messagesWithContext = [systemMessage, ...messages]
messagesWithContext(posted) == <<systemMessage>> \o posted

\* A handler that goes on to the upstream call without a look at the key.
keyCheckSkipped(key) == FALSE

\* if (!process.env.OPENROUTER_API_KEY) throw ...
apiKeyMissing(key) == ~Truthy(key)


\* What the upstream endpoint can answer: the fetch rejects, or there is a
\* response with a status, a content type, a body that parses or not, an
\* error field with a code and a type, and a reply text or none.
UpstreamError(code, type) ==
    [present |-> TRUE, code |-> code, type |-> type, message |-> "message of the upstream error"]
NoUpstreamError == [present |-> FALSE, code |-> Undefined, type |-> "", message |-> ""]
\* An error field that carries no message.
SilentError(code, type) == [UpstreamError(code, type) EXCEPT !.message = ""]
UpstreamStatuses == {200, 304, 400, 404, 429, 500, 503}
UpstreamCodes ==
    {Undefined, Num(400), Num(401), Num(402), Num(418), Num(429), Num(500), Str(<<"4", "0", "0">>)}
UpstreamTypes ==
    {"", "invalid_request_error", "authentication_error", "billing_error",
     "rate_limit_error", "api_error"}
UpstreamAnswer(rejects, status, json, parses, error, content) ==
    [rejects |-> rejects, status |-> status, contentTypeJson |-> json,
     parses |-> parses, error |-> error, hasContent |-> content]
UpstreamAnswers ==
    {UpstreamAnswer(TRUE, 0, FALSE, FALSE, NoUpstreamError, FALSE)}
    \cup {UpstreamAnswer(FALSE, st, FALSE, FALSE, NoUpstreamError, FALSE) : st \in {200, 503}}
    \cup {UpstreamAnswer(FALSE, st, TRUE, FALSE, NoUpstreamError, FALSE) : st \in {200, 503}}
    \cup {UpstreamAnswer(FALSE, st, TRUE, TRUE, UpstreamError(c, t), FALSE) :
             st \in {200, 404, 500}, c \in UpstreamCodes, t \in UpstreamTypes}
    \cup {UpstreamAnswer(FALSE, st, TRUE, TRUE, SilentError(c, ""), FALSE) :
             st \in {200, 500}, c \in {Undefined, Num(401)}}
    \cup {UpstreamAnswer(FALSE, st, TRUE, TRUE, NoUpstreamError, content) :
             st \in UpstreamStatuses, content \in BOOLEAN}

\* A few answers of each kind, for the requests that run side by side.
ConcurrentAnswers ==
    {UpstreamAnswer(TRUE, 0, FALSE, FALSE, NoUpstreamError, FALSE),
     UpstreamAnswer(FALSE, 200, FALSE, FALSE, NoUpstreamError, FALSE),
     UpstreamAnswer(FALSE, 200, TRUE, FALSE, NoUpstreamError, FALSE),
     UpstreamAnswer(FALSE, 200, TRUE, TRUE, UpstreamError(Num(429), ""), FALSE),
     UpstreamAnswer(FALSE, 404, TRUE, TRUE, NoUpstreamError, FALSE),
     UpstreamAnswer(FALSE, 503, TRUE, TRUE, NoUpstreamError, FALSE),
     UpstreamAnswer(FALSE, 200, TRUE, TRUE, NoUpstreamError, FALSE),
     UpstreamAnswer(FALSE, 200, TRUE, TRUE, NoUpstreamError, TRUE)}

\* A classification that has no case for the rate limit.
errorStatusWithout429(errorCode, errorType) ==
    IF errorCode = Num(400) \/ errorType = "invalid_request_error" THEN 400
    ELSE IF errorCode = Num(401) \/ errorType = "authentication_error" THEN 401
    ELSE IF errorCode = Num(402) \/ errorType = "billing_error" THEN 402
    ELSE 502

\* responseData.error.message || 'Unknown error from API provider.'
detailMessage(error) ==
    IF error.message # "" THEN error.message ELSE "Unknown error from API provider."

\* The status for an error field of the upstream body.
errorStatus(errorCode, errorType) ==
    IF errorCode = Num(400) \/ errorType = "invalid_request_error" THEN 400
    ELSE IF errorCode = Num(401) \/ errorType = "authentication_error" THEN 401
    ELSE IF errorCode = Num(402) \/ errorType = "billing_error" THEN 402
    ELSE IF errorCode = Num(429) \/ errorType = "rate_limit_error" THEN 429
    ELSE IF (errorCode.t = "number" /\ errorCode.n >= 500) \/ errorType = "api_error" THEN 502
    ELSE 502

\* NextResponse.json(body, { status }) builds a Response with a body: for a
\* status that allows none the constructor throws a TypeError, which the
\* catch block of POST takes.
nullBodyStatus(status) == status \in {101, 103, 204, 205, 304}

\* A handler that hands every upstream status on as it is.
communicationStatusAsIs(status) == status

\* const status = response.status >= 500 ? 502 : response.status
communicationStatus(status) == IF status >= 500 THEN 502 ELSE status

\* The response of POST to what the upstream endpoint answered.
upstreamResult(u) ==
    IF u.rejects THEN fatalError("fetch failed")
    ELSE IF ~u.contentTypeJson
    THEN ErrorResponse(502, "API Error", "Upstream API returned unexpected content type")
    ELSE IF ~u.parses
    THEN ErrorResponse(502, "API Error", "Upstream API returned invalid JSON")
    ELSE IF u.error.present
    THEN ErrorResponse(errorStatus(u.error.code, u.error.type), "API Request Failed",
                       detailMessage(u.error))
    ELSE IF ~(u.status >= 200 /\ u.status <= 299)
    THEN IF nullBodyStatus(communicationStatus(u.status))
         THEN fatalError("Invalid response status code")
         ELSE ErrorResponse(communicationStatus(u.status), "API Communication Error",
                            "Upstream API request failed")
    ELSE IF ~u.hasContent
    THEN ErrorResponse(500, "API Response Error",
                       "Received an unexpected response format from the AI provider.")
    ELSE OkResponse

\* The server process when it has started.
ServerStart ==
    /\ pdfData \in {Undefined, Str(<<>>), Str(<<"d", "o", "c">>)}
    /\ OPENROUTER_API_KEY \in {Undefined, Str(<<>>), Str(<<"k", "e", "y">>)}
    /\ pdfContentCache = Null
    /\ pdfCacheTimestamp = Null
    /\ now = 1
    /\ requests = [r \in Requests |-> NoRequest]

ServerInit ==
    /\ ServerStart
    /\ TableIdle
    /\ GraphIdle
    /\ ReplyIdle
    /\ ClientIdle

\* The clock moves on.
Tick ==
    /\ now < MaxTime
    /\ now' = now + 1
    /\ UNCHANGED <<processVars, cacheVars, requests, tableVars, graphVars, replyVars, clientVars>>

\* request.json() settles and the handler runs up to `await
\* extractPdfContent()`: the validation and, if it passes, the whole of
\* extractPdfContent, which has no await of its own.
Receive(r, body) ==
    /\ requests[r].pc = "idle"
    /\  LET checked == validate(body)
            loaded == extractPdfContent(pdfContentCache, pdfCacheTimestamp, now, pdfData)
        IN  IF ~checked.passes
            THEN /\ requests' = [requests EXCEPT ![r].pc = "done", ![r].body = body,
                                                 ![r].response = checked.response]
                 /\ UNCHANGED cacheVars
            ELSE /\ requests' = [requests EXCEPT ![r].pc = "context", ![r].body = body,
                                                 ![r].loads = 1,
                                                 ![r].pdfContent = loaded.content,
                                                 ![r].load = [at |-> now,
                                                              before |-> pdfCacheTimestamp,
                                                              after |-> loaded.timestamp,
                                                              read |-> loaded.read]]
                 /\ pdfContentCache' = loaded.cache
                 /\ pdfCacheTimestamp' = loaded.timestamp
    /\ UNCHANGED <<processVars, now, tableVars, graphVars, replyVars>>

\* A request with any of the bodies.
ReceiveRequest(r) == (\E body \in Bodies : Receive(r, body)) /\ UNCHANGED clientVars

\* The handler goes on after the context: a failed load is caught; the
\* system message is built, the key is checked and the fetch is started.
CallUpstream(r) ==
    /\ requests[r].pc = "context"
    /\ requests' =
         IF requests[r].pdfContent = Null
         THEN [requests EXCEPT ![r].pc = "done",
                               ![r].response = fatalError("Failed to load required PDF context")]
         ELSE IF apiKeyMissing(OPENROUTER_API_KEY)
         THEN [requests EXCEPT ![r].pc = "done",
                               ![r].response = fatalError("Server configuration error: API Key is missing.")]
         ELSE [requests EXCEPT ![r].pc = "upstream", ![r].calls = @ + 1,
                               ![r].sent = messagesWithContext(requests[r].body.messages.items)]
    /\ UNCHANGED <<processVars, cacheVars, now, tableVars, graphVars, replyVars, clientVars>>

\* A handler that calls the upstream endpoint again when it answered 5xx.
retryOn5xx(u) == IF ~u.rejects /\ u.status >= 500 THEN "context" ELSE "done"

\* Where the handler is after the upstream answer: every branch returns.
afterUpstream(u) == "done"

\* The fetch settles with one of the answers and the handler runs to its end.
UpstreamSettlesWith(r, answers) ==
    /\ requests[r].pc = "upstream"
    /\ \E u \in answers :
        requests' = [requests EXCEPT ![r].pc = afterUpstream(u), ![r].upstream = u,
                                     ![r].response = upstreamResult(u)]
    /\ UNCHANGED <<processVars, cacheVars, now, tableVars, graphVars, replyVars, clientVars>>

UpstreamSettles(r) == UpstreamSettlesWith(r, ConcurrentAnswers)

ServerNext ==
    \/ Tick
    \/ \E r \in Requests : ReceiveRequest(r)
    \/ \E r \in Requests : CallUpstream(r)
    \/ \E r \in Requests : UpstreamSettles(r)

SpecServer == ServerInit /\ [][ServerNext]_vars

\* One request on its own, with every answer of the upstream endpoint.
UpstreamAnswered(r) == UpstreamSettlesWith(r, UpstreamAnswers)

UpstreamNext ==
    \/ ReceiveRequest("r1")
    \/ CallUpstream("r1")
    \/ UpstreamAnswered("r1")

SpecUpstream == ServerInit /\ [][UpstreamNext]_vars

----------------------------------------------------------------------------
(* unnamed/part_003: the route as it was when extractPdfContent read and   *)
(* parsed the PDF file itself.  The function has three awaits (fs.access,  *)
(* fs.readFile, pdfParse), so two calls can overlap; pdfData stands for    *)
(* what pdfParse yields as data.text.                                      *)

\* A catch block that leaves the timestamp as it finds it.
catchKeepsTimestamp(timestamp) == [cache |-> Null, timestamp |-> timestamp]

\* catch (error) { pdfContentCache = null; pdfCacheTimestamp = null; ... }
catchBlock(timestamp) == [cache |-> Null, timestamp |-> Null]

\* The handler calls extractPdfContent: `now` is taken, the cached text is
\* returned if it is fresh, otherwise the function runs to `await fs.access`.
BeginExtract(r) ==
    /\ requests[r].pc = "idle"
    /\ requests' =
         IF cacheFresh(pdfContentCache, pdfCacheTimestamp, now)
         THEN [requests EXCEPT ![r].pc = "context", ![r].loads = 1,
                               ![r].pdfContent = pdfContentCache,
                               ![r].load = [at |-> now, before |-> pdfCacheTimestamp,
                                            after |-> pdfCacheTimestamp, read |-> FALSE]]
         ELSE [requests EXCEPT ![r].pc = "access", ![r].loads = 1,
                               ![r].load = [at |-> now, before |-> pdfCacheTimestamp,
                                            after |-> pdfCacheTimestamp, read |-> TRUE]]
    /\ UNCHANGED <<processVars, cacheVars, now, tableVars, graphVars, replyVars, clientVars>>

\* fs.access, then fs.readFile, resolve.
FileStep(r) ==
    /\ requests[r].pc \in {"access", "readFile"}
    /\ requests' = [requests EXCEPT ![r].pc = IF @ = "access" THEN "readFile" ELSE "pdfParse"]
    /\ UNCHANGED <<processVars, cacheVars, now, tableVars, graphVars, replyVars, clientVars>>

\* What the catch block does to the request and the cache.
ExtractThrows(r) ==
    /\ requests' = [requests EXCEPT ![r].pc = "failed", ![r].pdfContent = Null,
                                    ![r].load.after = catchBlock(pdfCacheTimestamp).timestamp]
    /\ pdfContentCache' = catchBlock(pdfCacheTimestamp).cache
    /\ pdfCacheTimestamp' = catchBlock(pdfCacheTimestamp).timestamp

\* One of the three awaited calls rejects.
FileFails(r) ==
    /\ requests[r].pc \in {"access", "readFile", "pdfParse"}
    /\ ExtractThrows(r)
    /\ UNCHANGED <<processVars, now, tableVars, graphVars, replyVars, clientVars>>

\* pdfParse resolves: no text throws, a text is cached with the `now` the
\* call started with and returned.
FileParsed(r) ==
    /\ requests[r].pc = "pdfParse"
    /\ IF ~Truthy(pdfData)
       THEN ExtractThrows(r)
       ELSE /\ requests' = [requests EXCEPT ![r].pc = "context", ![r].pdfContent = pdfData,
                                            ![r].load.after = Num(requests[r].load.at)]
            /\ pdfContentCache' = pdfData
            /\ pdfCacheTimestamp' = Num(requests[r].load.at)
    /\ UNCHANGED <<processVars, now, tableVars, graphVars, replyVars, clientVars>>

\* The handler ends, with a reply or with the error; another request can come.
HandlerEnds(r) ==
    /\ requests[r].pc \in {"context", "failed"}
    /\ requests' = [requests EXCEPT ![r] = NoRequest]
    /\ UNCHANGED <<processVars, cacheVars, now, tableVars, graphVars, replyVars, clientVars>>

FileReadInit ==
    /\ ServerInit
    /\ OPENROUTER_API_KEY = Str(<<"k", "e", "y">>)

FileReadNext ==
    \/ Tick
    \/ \E r \in Requests : BeginExtract(r)
    \/ \E r \in Requests : FileStep(r)
    \/ \E r \in Requests : FileFails(r)
    \/ \E r \in Requests : FileParsed(r)
    \/ \E r \in Requests : HandlerEnds(r)

SpecFileRead == FileReadInit /\ [][FileReadNext]_vars


-----------------------------------------------------------------------------
(* Chatbot.tsx: the chat component, with the route behind its fetch.       *)

\* A message of the history: an object with a role (a string, "" for an
\* empty one, "undefined" for none) and a content (a text or not), with the
\* payload the client attached and the submission it belongs to; or null.
ChatMessage(role, content, payload, turn) ==
    [isNull |-> FALSE, role |-> role, isText |-> TRUE, content |-> content,
     payload |-> payload, turn |-> turn]
NullMessage ==
    [isNull |-> TRUE, role |-> "undefined", isText |-> FALSE, content |-> "",
     payload |-> "none", turn |-> 0]

\* JSON.stringify(messages), as the text of an array.
stringifyMessages(list) ==
    [present |-> TRUE, empty |-> FALSE, parses |-> TRUE, isArray |-> TRUE, items |-> list]

\* What may be stored when the component starts: nothing, the empty text, a
\* text that is no JSON, JSON that is no array, arrays with an entry that is
\* null, has no role, an empty role or a content that is no string (alone or
\* behind a good entry), and histories the component saved itself.
Earlier(role) == ChatMessage(role, "earlier", "none", 0)
StoredHistories ==
    {NoHistory,
     [NoHistory EXCEPT !.present = TRUE, !.empty = TRUE],
     [NoHistory EXCEPT !.present = TRUE],
     [NoHistory EXCEPT !.present = TRUE, !.parses = TRUE]}
    \cup {stringifyMessages(list) :
            list \in {<<>>, <<Earlier("user")>>, <<Earlier("user"), Earlier("assistant")>>,
                      <<NullMessage>>, <<Earlier("undefined")>>, <<Earlier("")>>,
                      <<[Earlier("user") EXCEPT !.isText = FALSE]>>,
                      <<Earlier("user"), [Earlier("assistant") EXCEPT !.isText = FALSE]>>,
                      <<Earlier("undefined"), NullMessage>>,
                      <<Earlier("user"), NullMessage>>}}

\* parsedHistory.every(m => m.role && typeof m.content === 'string') from
\* entry i on: "true", "false", or "throws" at an entry that is null.
RECURSIVE everyFrom(_, _)
everyFrom(items, i) ==
    IF i > Len(items) THEN "true"
    ELSE IF items[i].isNull THEN "throws"
    ELSE IF items[i].role \in {"", "undefined"} \/ ~items[i].isText THEN "false"
    ELSE everyFrom(items, i + 1)

\* A load that takes every array as a history.
anyArrayAccepted(saved) == saved.present /\ ~saved.empty /\ saved.parses /\ saved.isArray

\* The load effect takes the stored text as the history.
historyAccepted(saved) ==
    /\ saved.present /\ ~saved.empty
    /\ saved.parses
    /\ saved.isArray /\ everyFrom(saved.items, 1) = "true"

\* The load effect removes the entry: in the else branch and in the catch.
historyRemoved(saved) == saved.present /\ ~saved.empty /\ ~historyAccepted(saved)

\* The messages array as the route gets it.
posted(list) ==
    [i \in 1..Len(list) |-> [isNull |-> list[i].isNull, role |-> list[i].role, content |-> i]]

\* What the reply of a 200 response can be for the client: no text, a text,
\* or a text with a graph or a table marker it can parse.
Replies == {"empty", "none", "graph", "table"}

\* The browser when the page is opened.
ClientStart ==
    /\ localStorage \in StoredHistories
    /\ savedHistory = NoHistory
    /\ messages = <<>>
    /\ isHydrated = FALSE
    /\ isLoading = FALSE
    /\ mounted = FALSE
    /\ committed = TRUE
    /\ fetching = NoFetch
    /\ submissions = 0
    /\ fetches = 0
    /\ settlements = 0

\* The browser and the server, the server with or without its text and key.
ClientInit ==
    /\ ClientStart
    /\ ServerStart
    /\ pdfData # Str(<<>>)
    /\ OPENROUTER_API_KEY # Str(<<>>)
    /\ TableIdle
    /\ GraphIdle
    /\ ReplyIdle

\* A save effect that writes the list whether the component is hydrated or not.
saveEffectUnguarded(hydrated, list, stored) == stringifyMessages(list)

\* The save effect: if (isHydrated) localStorage.setItem(CHAT_HISTORY_KEY,
\* JSON.stringify(messages)); what is stored afterwards.
saveEffect(hydrated, list, stored) == IF hydrated THEN stringifyMessages(list) ELSE stored

\* The effects of the first render: the load effect (the history part),
\* then the save effect with the isHydrated and the messages of that render.
LoadHistory ==
    /\ ~mounted
    /\ mounted' = TRUE
    /\ savedHistory' = localStorage
    /\ messages' = IF historyAccepted(localStorage) THEN localStorage.items ELSE messages
    /\ localStorage' = saveEffect(isHydrated, messages,
                                  IF historyRemoved(localStorage) THEN NoHistory
                                  ELSE localStorage)
    /\ isHydrated' = TRUE
    /\ committed' = FALSE
    /\ UNCHANGED <<isLoading, fetching, submissions, fetches, settlements>>
    /\ UNCHANGED <<tableVars, graphVars, replyVars, serverVars>>

\* The save effect, after a render in which messages or isHydrated changed.
SaveHistory ==
    /\ mounted /\ ~committed
    /\ localStorage' = saveEffect(isHydrated, messages, localStorage)
    /\ committed' = TRUE
    /\ UNCHANGED <<savedHistory, messages, isHydrated, isLoading, mounted, fetching,
                   submissions, fetches, settlements>>
    /\ UNCHANGED <<tableVars, graphVars, replyVars, serverVars>>

\* A list of the new message alone.
onlyUserMessage(list, userMessage) == <<userMessage>>

\* messagesToSend = [...messages, userMessage]
messagesToSend(list, userMessage) == Append(list, userMessage)

\* handleSubmit and handleVisualizeRequest from `const messagesToSend` on,
\* with callChatApi up to its fetch.
Send(userMessage) ==
    /\ submissions < MaxSubmissions
    /\ messages' = messagesToSend(messages, userMessage)
    /\ isLoading' = TRUE
    /\ fetching' = [state |-> "sent", body |-> messages']
    /\ submissions' = submissions + 1
    /\ fetches' = fetches + 1
    /\ committed' = FALSE
    /\ UNCHANGED <<localStorage, savedHistory, isHydrated, mounted, settlements>>
    /\ UNCHANGED <<tableVars, graphVars, replyVars, serverVars>>

\* A guard that looks at the input only.
emptyInputOnly(input, loading, hydrated) == input = ""

\* if (!input.trim() || isLoading || !isHydrated) return
submitRefused(input, loading, hydrated) == input = "" \/ loading \/ ~hydrated

\* handleSubmit
handleSubmit ==
    /\ mounted /\ committed
    /\ \E input \in {"", "question"} :
          /\ ~submitRefused(input, isLoading, isHydrated)
          /\ Send(ChatMessage("user", input, "none", submissions + 1))

\* handleVisualizeRequest: if (isLoading || !isHydrated || messages.length === 0) return
handleVisualizeRequest ==
    /\ mounted /\ committed
    /\ ~(isLoading \/ ~isHydrated \/ Len(messages) = 0)
    /\ Send(ChatMessage("user", "please generate a chart", "none", submissions + 1))

\* clearChatHistory, behind a button that is there when there are messages.
clearChatHistory ==
    /\ mounted /\ committed
    /\ Len(messages) > 0
    /\ messages' = <<>>
    /\ localStorage' = NoHistory
    /\ committed' = FALSE
    /\ UNCHANGED <<savedHistory, isHydrated, isLoading, mounted, fetching,
                   submissions, fetches, settlements>>
    /\ UNCHANGED <<tableVars, graphVars, replyVars, serverVars>>

\* The request reaches the route.
RouteReceives ==
    /\ fetching.state = "sent"
    /\ Receive("r1", Body("array", posted(fetching.body)))
    /\ fetching' = [fetching EXCEPT !.state = "received"]
    /\ UNCHANGED <<localStorage, savedHistory, messages, isHydrated, isLoading, mounted,
                   committed, submissions, fetches, settlements>>

\* The message callChatApi appends for a response: the catch block's text
\* for a status that is not ok or a reply without text, else the reply.
assistantMessageFor(response, reply, turn) ==
    IF response.status < 200 \/ response.status > 299
    THEN ChatMessage("assistant",
                     IF response.details # "" THEN response.details ELSE response.error,
                     "error", turn)
    ELSE IF reply = "empty"
    THEN ChatMessage("assistant", "Received unexpected data format from the assistant.",
                     "error", turn)
    ELSE ChatMessage("assistant", "reply", reply, turn)

\* callChatApi after its awaits: setMessages(prev => [...prev, message]) and
\* setIsLoading(false).
Settle(message) ==
    /\ messages' = Append(messages, message)
    /\ isLoading' = FALSE
    /\ fetching' = NoFetch
    /\ settlements' = settlements + 1
    /\ committed' = FALSE
    /\ UNCHANGED <<localStorage, savedHistory, isHydrated, mounted, submissions, fetches>>
    /\ UNCHANGED <<tableVars, graphVars, replyVars, processVars, cacheVars, now>>

\* The response of the route arrives.
ResponseArrives ==
    /\ fetching.state = "received"
    /\ requests["r1"].pc = "done"
    /\ \E reply \in IF requests["r1"].response.status = 200 THEN Replies ELSE {"none"} :
          Settle(assistantMessageFor(requests["r1"].response, reply, submissions))
    /\ requests' = [requests EXCEPT !["r1"] = NoRequest]

\* The fetch rejects: the request never got to the route.
FetchRejects ==
    /\ fetching.state = "sent"
    /\ Settle(ChatMessage("assistant", "Failed to fetch", "error", submissions))
    /\ UNCHANGED requests

ClientNext ==
    \/ LoadHistory
    \/ SaveHistory
    \/ handleSubmit
    \/ handleVisualizeRequest
    \/ clearChatHistory
    \/ FetchRejects
    \/ RouteReceives
    \/ CallUpstream("r1")
    \/ UpstreamSettles("r1")
    \/ ResponseArrives

SpecClient == ClientInit /\ [][ClientNext]_vars


----------------------------------------------------------------------------
(* Claims about POST /api/chat.                                            *)

\* The body is an object whose messages field is missing, not an array,
\* empty, or has a last entry whose role is not "user".
InvalidRequest(body) ==
    /\ body.parses /\ ~body.isNull
    /\ \/ invalidMessages(body.messages)
       \/ LET lastMessage == body.messages.items[Len(body.messages.items)]
          IN  lastMessage.isNull \/ lastMessage.role # "user"

\* C9: a request whose messages field is missing, not an array, empty, or
\* whose last entry does not have role "user" is answered with status 400,
\* with no context load and no upstream call, whatever the credential and
\* the cache.
C9_InvalidRequestIs400 ==
    \A r \in Requests :
        (requests[r].pc = "done" /\ InvalidRequest(requests[r].body)) =>
            /\ requests[r].response.status = 400
            /\ requests[r].loads = 0
            /\ requests[r].calls = 0

\* The same for the bodies whose last entry is not null, and the part of C9
\* about the context and the upstream call for all of them.
C9_400UnlessLastIsNull ==
    \A r \in Requests :
        (/\ requests[r].pc = "done" /\ InvalidRequest(requests[r].body)
         /\ \A i \in 1..Len(requests[r].body.messages.items) :
               ~requests[r].body.messages.items[i].isNull) =>
            requests[r].response.status = 400
C9_NoLoadNoCall ==
    \A r \in Requests :
        (requests[r].pc = "done" /\ InvalidRequest(requests[r].body)) =>
            (requests[r].loads = 0 /\ requests[r].calls = 0)

\* C10: while OPENROUTER_API_KEY is absent no request calls the upstream
\* endpoint, and a valid request ends with the 500 envelope of a
\* configuration error (the key, or the context, is missing).
C10_NoKeyNoUpstreamCall ==
    OPENROUTER_API_KEY = Undefined =>
        \A r \in Requests :
            /\ requests[r].calls = 0
            /\ requests[r].pc # "upstream"
            /\ (requests[r].pc = "done" /\ validate(requests[r].body).passes) =>
                  /\ requests[r].response.status = 500
                  /\ requests[r].response.error = "Internal Server Error"
                  /\ requests[r].response.details
                        \in {"Server configuration error: API Key is missing.",
                             "Failed to load required PDF context"}

C10_Witness ==
    /\ OPENROUTER_API_KEY = Undefined
    /\ pdfContentCache = Str(<<"d", "o", "c">>)
    /\ requests["r1"].pc = "done"
    /\ requests["r1"].body = Body("array", Numbered(<<Message("user")>>))
    /\ requests["r1"].loads = 1
    /\ requests["r1"].calls = 0
    /\ requests["r1"].response
          = fatalError("Server configuration error: API Key is missing.")
    /\ requests["r2"].pc = "done"
    /\ requests["r2"].response.status = 400


\* The statuses of the failure taxonomy.
TaxonomyStatuses == {400, 401, 402, 429, 500, 502}

\* The upstream endpoint answered with a JSON body that has no error field
\* and a status outside 200..299.
PlainHttpFailure(u) ==
    /\ ~u.rejects /\ u.contentTypeJson /\ u.parses /\ ~u.error.present
    /\ ~(u.status >= 200 /\ u.status <= 299)

\* C11: every error response of POST /api/chat carries a status in
\* {400, 401, 402, 429, 500, 502}, whatever the upstream endpoint answered
\* and whatever failed locally.
C11_ErrorStatusInTaxonomy ==
    \A r \in Requests :
        (requests[r].pc = "done" /\ requests[r].response.status # 200) =>
            requests[r].response.status \in TaxonomyStatuses

\* C11 as amended: the status is in {400, 401, 402, 429, 500, 502}, or it is
\* the upstream's own status, below 500, when the upstream answered with a
\* non-2xx status and a JSON body without an error field.
C11_TaxonomyOrUpstreamStatus ==
    \A r \in Requests :
        (requests[r].pc = "done" /\ requests[r].response.status # 200) =>
            \/ requests[r].response.status \in TaxonomyStatuses
            \/ /\ PlainHttpFailure(requests[r].upstream)
               /\ requests[r].upstream.status < 500
               /\ requests[r].response.status = requests[r].upstream.status

C11_Witness ==
    /\ requests["r1"].pc = "done"
    /\ requests["r1"].calls = 1
    /\ requests["r1"].upstream = UpstreamAnswer(FALSE, 404, TRUE, TRUE, NoUpstreamError, FALSE)
    /\ requests["r1"].response
          = ErrorResponse(404, "API Communication Error", "Upstream API request failed")


\* The status the classification table of C12 gives an error field.
ClaimedErrorStatus(error) ==
    CASE error.code = Num(400) \/ error.type = "invalid_request_error" -> 400
      [] OTHER ->
    CASE error.code = Num(401) \/ error.type = "authentication_error" -> 401
      [] OTHER ->
    CASE error.code = Num(402) \/ error.type = "billing_error" -> 402
      [] OTHER ->
    CASE error.code = Num(429) \/ error.type = "rate_limit_error" -> 429
      [] OTHER -> 502

\* C12: upstream results are classified in a fixed order: a content type
\* that is not JSON or a body that does not parse gives 502; otherwise an
\* error field gives the status of its code or type alone (400, 401, 402,
\* 429, else 502), whatever the upstream HTTP status, with the upstream
\* message as details; otherwise a success envelope without a reply text
\* gives 500.
C12_UpstreamClassifiedInOrder ==
    \A r \in Requests :
        LET u == requests[r].upstream
            response == requests[r].response
        IN  (requests[r].pc = "done" /\ requests[r].calls = 1 /\ ~u.rejects) =>
                IF ~u.contentTypeJson \/ ~u.parses THEN response.status = 502
                ELSE IF u.error.present
                THEN /\ response.status = ClaimedErrorStatus(u.error)
                     /\ u.error.message # "" => response.details = u.error.message
                ELSE (u.status >= 200 /\ u.status <= 299 /\ ~u.hasContent) =>
                        response.status = 500

C12_Witness ==
    /\ requests["r1"].pc = "done"
    /\ requests["r1"].upstream
          = UpstreamAnswer(FALSE, 500, TRUE, TRUE, UpstreamError(Num(429), "api_error"), FALSE)
    /\ requests["r1"].response
          = ErrorResponse(429, "API Request Failed", "message of the upstream error")


\* The request got as far as the context load and has been answered.
LoadedAndDone(r) == requests[r].pc = "done" /\ requests[r].loads = 1

\* The load failed: the fatal envelope, no upstream call, nothing cached.
LoadIsFatal(r) ==
    /\ requests[r].response = fatalError("Failed to load required PDF context")
    /\ requests[r].calls = 0
    /\ pdfContentCache = Null
    /\ pdfCacheTimestamp = Null

WithinWindow(r) ==
    /\ requests[r].loads = 1
    /\ requests[r].load.before # Null
    /\ requests[r].load.at - requests[r].load.before.n < PDF_CACHE_DURATION
AtOrAfterExpiry(r) ==
    /\ requests[r].loads = 1
    /\ requests[r].load.before # Null
    /\ requests[r].load.at - requests[r].load.before.n >= PDF_CACHE_DURATION

\* What C15 says of one load.
CacheRuleKept(r) ==
    /\ WithinWindow(r) => /\ ~requests[r].load.read
                          /\ requests[r].load.after = requests[r].load.before
                          /\ requests[r].pdfContent = pdfData
    /\ AtOrAfterExpiry(r) => /\ requests[r].load.read
                             /\ requests[r].load.after = Num(requests[r].load.at)

\* C15: after a successful load at time t, every call of extractPdfContent
\* less than the cache duration after t returns the cached text without
\* reading the source again and without changing the cache timestamp; the
\* first call at or after expiry reads the source again and resets the
\* timestamp.
C15_CachedWithinWindow == \A r \in Requests : CacheRuleKept(r)

\* The same for a text that is not empty.
C15_NonEmptyTextCached == pdfData # Str(<<>>) => \A r \in Requests : CacheRuleKept(r)

\* An empty text is read again, a minute after it was loaded.
C15_EmptyTextReadAgain ==
    /\ pdfData = Str(<<>>)
    /\ WithinWindow("r2") /\ requests["r2"].load.read
    /\ requests["r2"].load.after # requests["r2"].load.before

\* C18: the message list sent to the upstream endpoint is one system
\* message followed by the caller's whole history: the same messages in the
\* same order, none dropped, added or altered.
C18_SystemMessageThenHistory ==
    \A r \in Requests :
        LET history == requests[r].body.messages.items
            sent == requests[r].sent
        IN  requests[r].calls >= 1 =>
                /\ Len(sent) = Len(history) + 1
                /\ sent[1].role = "system"
                /\ \A i \in 1..Len(history) :
                      /\ sent[i + 1] = history[i]
                      /\ sent[i + 1].role # "system"

C18_Witness ==
    /\ requests["r1"].calls = 1
    /\ Len(requests["r1"].body.messages.items) = MaxMessages
    /\ requests["r1"].sent[2] = [Message("user") EXCEPT !.content = 1]
    /\ requests["r1"].sent[MaxMessages + 1] = [Message("user") EXCEPT !.content = MaxMessages]

\* The names of the keys of a record.
KeysOf(point) == {point.kv[j].k : j \in 1..Len(point.kv)}

\* The call gave some record of the payload other key names than it had.
RenamedAKey(gd, result) ==
    /\ sanitizes(gd)
    /\ \E i \in 1..Len(gd.data.items) :
          /\ gd.data.items[i].isObject
          /\ KeysOf(result.data.items[i]) # KeysOf(gd.data.items[i])

\* C19: whenever sanitizeGraphData renames a key of a record (the x/y
\* mapping of scatter, or whitespace, periods and hyphens replaced), the
\* payload it returns has a note in options.note that is not empty; for
\* every chart type, and for scatter payloads whose x and y sources could
\* not be identified.
C19_RenameLeavesNote ==
    (graphPc = "done" /\ RenamedAKey(graphParsed, graphResult)) =>
        /\ graphResult.options.present
        /\ graphResult.options.note # <<>>

\* The same, for every payload but scatter payloads left unmapped.
C19_NoteUnlessUnmappedScatter ==
    (/\ graphPc = "done"
     /\ RenamedAKey(graphParsed, graphResult)
     /\ ~(graphType(graphParsed) = S_scatter /\ ~scatterMapped(graphParsed))) =>
        /\ graphResult.options.present
        /\ graphResult.options.note # <<>>

\* The payloads C20 speaks of: scatter, the first record holding a number
\* under two keys at least.
ScatterWithTwoNumbers(gd) ==
    /\ sanitizes(gd)
    /\ graphType(gd) = S_scatter
    /\ Len(numericKeys(firstPoint(gd))) >= 2

\* Every record of the result has a key x and a key y.
ExposesXY(result) ==
    \A i \in 1..Len(result.data.items) :
        result.data.items[i].isObject =>
            /\ hasOwnProperty(result.data.items[i].kv, K_x)
            /\ hasOwnProperty(result.data.items[i].kv, K_y)

\* C20: for a scatter payload whose first record has two numeric keys or
\* more, sanitizeGraphData finds an x source and a y source (the axis-name
\* hints first, then the first two numeric keys) and returns records with x
\* and y, whichever hints are present, absent or matching in part.
C20_ScatterSourcesIdentified ==
    (graphPc = "done" /\ ScatterWithTwoNumbers(graphParsed)) =>
        /\ xAxisKeySource(graphParsed) # <<>>
        /\ yAxisKeySource(graphParsed) # <<>>
        /\ ExposesXY(graphResult)

\* The same, unless the only hint that matches is the x hint and names the
\* second numeric key.
C20_IdentifiedUnlessXHintIsSecondKey ==
    (/\ graphPc = "done"
     /\ ScatterWithTwoNumbers(graphParsed)
     /\ ~(/\ hintKey(graphParsed.options.yAxisName, firstPoint(graphParsed)) = <<>>
          /\ hintKey(graphParsed.options.xAxisName, firstPoint(graphParsed))
                = numericKeys(firstPoint(graphParsed))[2])) =>
        /\ xAxisKeySource(graphParsed) # <<>>
        /\ yAxisKeySource(graphParsed) # <<>>
        /\ ExposesXY(graphResult)

-----------------------------------------------------------------------------
(* Claims about the chat component.                                        *)

\* The round trips so far went through one call each, and the route called
\* the upstream endpoint once at most.
OneCallEach ==
    /\ fetches = submissions
    /\ settlements <= fetches /\ fetches <= settlements + 1
    /\ (fetching.state # "none") = (fetches = settlements + 1)
    /\ isLoading = (fetching.state # "none")
    /\ fetching.state # "received" => requests["r1"].pc = "idle"
    /\ requests["r1"].calls <= 1

\* A call that failed has ended with its error text in the history (unless
\* the history was cleared meanwhile) and nothing is on its way.
EndedWithError ==
    /\ fetching.state = "none"
    /\ settlements = fetches
    /\ Len(messages) > 0
    /\ messages[Len(messages)].role = "assistant"
    /\ messages[Len(messages)].payload = "error"

\* C13: nothing is retried: a POST /api/chat request calls the upstream
\* endpoint once at most, a submission in the client makes exactly one call
\* of /api/chat, and after a failure the round trip has ended with an error
\* and no call is made until the user submits again.
C13_NoRetry ==
    /\ OneCallEach
    /\ \A r \in Requests : requests[r].calls <= 1
    /\ (fetching.state = "none" /\ mounted) =>
          /\ ~isLoading
          /\ requests["r1"] = NoRequest

C13_Witness ==
    /\ submissions = MaxSubmissions
    /\ EndedWithError
    /\ messages[Len(messages)].turn = MaxSubmissions
    /\ messages[Len(messages)].content = "Server configuration error: API Key is missing."

\* The stored text is no JSON, or no array whose entries all have a role and
\* a string content.
MalformedHistory(saved) ==
    /\ saved.present
    /\ \/ ~saved.parses
       \/ ~saved.isArray
       \/ \E i \in 1..Len(saved.items) :
             \/ saved.items[i].isNull
             \/ saved.items[i].role \in {"", "undefined"}
             \/ ~saved.items[i].isText

\* The load effect has run on a malformed text and nothing was submitted yet.
StartedOnMalformed == mounted /\ MalformedHistory(savedHistory) /\ submissions = 0

C17_RoundTripAppends ==
    [][/\ submissions' # submissions =>
            /\ submissions' = submissions + 1
            /\ Len(messages') = Len(messages) + 1
            /\ SubSeq(messages', 1, Len(messages)) = messages
            /\ messages'[Len(messages')].role = "user"
       /\ settlements' # settlements =>
            /\ settlements' = settlements + 1
            /\ Len(messages') = Len(messages) + 1
            /\ SubSeq(messages', 1, Len(messages)) = messages
            /\ messages'[Len(messages')].role = "assistant"
            /\ messages'[Len(messages')].payload = "error"
                  \/ messages'[Len(messages')].content = "reply"
       /\ (submissions' = submissions /\ settlements' = settlements /\ messages' # messages) =>
            \/ messages' = <<>>
            \/ ~mounted
      ]_vars

C17_Witness ==
    /\ savedHistory = stringifyMessages(<<Earlier("user"), Earlier("assistant")>>)
    /\ submissions = MaxSubmissions /\ settlements = MaxSubmissions
    /\ Len(messages) = 2 + 2 * MaxSubmissions
    /\ messages[1] = Earlier("user")
    /\ messages[3].role = "user" /\ messages[3].content = "please generate a chart"
    /\ messages[4].payload = "error"
    /\ messages[Len(messages)].payload = "graph"

\* The chartConfig entries of a composed payload whose dataKey is a key of
\* the first record.
ConfigNamesAKey(gd, i) ==
    /\ sanitizes(gd)
    /\ graphType(gd) = S_composed
    /\ isArray(gd.options.chartConfig)
    /\ i \in 1..Len(gd.options.chartConfig.items)
    /\ gd.options.chartConfig.items[i].dataKey.t = "string"
    /\ hasOwnProperty(firstPoint(gd), gd.options.chartConfig.items[i].dataKey.s)

\* C21: after a composed payload is sanitized, every chartConfig entry
\* whose dataKey named a key of the first record names a key of the first
\* record of the result, and it is the key that data key was renamed to:
\* the config is renamed with exactly the mapping of the data keys.
C21_ConfigFollowsDataKeys ==
    graphPc = "done" =>
        \A i \in 1..MaxKeys :
            ConfigNamesAKey(graphParsed, i) =>
                LET before == graphParsed.options.chartConfig.items[i].dataKey.s
                    after == graphResult.options.chartConfig.items[i].dataKey.s
                IN  /\ hasOwnProperty(graphResult.data.items[1].kv, after)
                    /\ after = currentKey(before, S_composed, categoryKey(graphParsed))

\* The first half alone: the entry still names a key of the first record.
C21_ConfigNamesSomeKey ==
    graphPc = "done" =>
        \A i \in 1..MaxKeys :
            ConfigNamesAKey(graphParsed, i) =>
                hasOwnProperty(graphResult.data.items[1].kv,
                               graphResult.options.chartConfig.items[i].dataKey.s)

----------------------------------------------------------------------------
(* The scan for a data block written without a marker                      *)

\* The text has neither marker.
NoMarker(text) ==
    /\ ~markerMatch(text, "<!--GRAPH_DATA:").found
    /\ ~markerMatch(text, "<!--TABLE_DATA:").found

\* The literal at place i stands on a line of its own.
Standalone(text, i) ==
    /\ text[i].k = "json"
    /\ atLineStart(text, i)
    /\ atLineEnd(text, i)

\* The standalone literals that parse and have the graph or the table shape.
ShapedLiterals(text) ==
    {i \in 1..Len(text) :
        /\ Standalone(text, i)
        /\ text[i].lit.ok
        /\ (graphShape(text[i].lit.obj) \/ tableShape(text[i].lit.obj))}

\* The text without the segment at place i.
withoutPlace(text, i) == SubSeq(text, 1, i - 1) \o SubSeq(text, i + 1, Len(text))

\* The text the claim describes for the literal at place i: the text without
\* it, then the sanitized payload in the canonical marker.
Reappended(text, i) ==
    LET obj == text[i].lit.obj
    IN  trim(withoutPlace(text, i))
        \o <<LineBreak, LineBreak>>
        \o <<IF graphShape(obj) THEN GraphOpen ELSE TableOpen,
             JSONstringify(IF graphShape(obj) THEN sanitizeGraphData(obj)
                           ELSE sanitizeTableData(obj)),
             Close>>

\* C22: for a reply with no explicit marker, the first standalone JSON
\* literal in text order that parses and has the graph shape or the table
\* shape is chosen; the text returned is the reply with that literal removed,
\* followed by the sanitized payload in the matching canonical marker.
C22_FirstShapedLiteralMoved ==
    (Processed /\ NoMarker(originalContent) /\ ShapedLiterals(originalContent) # {}) =>
        /\ ~processedContent.threw
        /\ processedContent.text # originalContent
        /\ processedContent.text =
               Reappended(originalContent, LeastOf(ShapedLiterals(originalContent)))


----------------------------------------------------------------------------
(* The marker written back by processAndEnsureDataFormatting               *)

\* The delimiter of the case the function takes for a text with a marker.
markerOf(text) ==
    IF markerMatch(text, "<!--GRAPH_DATA:").found THEN "<!--GRAPH_DATA:" ELSE "<!--TABLE_DATA:"

\* The reply has an explicit marker whose content parses.
MarkerParses(text) ==
    /\ ~NoMarker(text)
    /\ JSONparse(trim(markerMatch(text, markerOf(text)).group)).ok

\* The payload the marker of the text holds, sanitized.
sanitizedMarker(text) ==
    LET obj == JSONparse(trim(markerMatch(text, markerOf(text)).group)).obj
    IN  IF markerOf(text) = "<!--GRAPH_DATA:" THEN sanitizeGraphData(obj)
        ELSE sanitizeTableData(obj)

\* The text before and after the first marker span.
outsideMarker(text) ==
    LET m == markerMatch(text, markerOf(text))
    IN  <<SubSeq(text, 1, m.from - 1), SubSeq(text, m.to + 1, Len(text))>>

\* The marker's payload has a string the replacement reads as a pattern.
HasDollarPattern(text) ==
    \/ objectInserts(sanitizedMarker(text))
    \/ expandObject(sanitizedMarker(text)) # sanitizedMarker(text)

\* C26: for every reply with an explicit graph or table marker whose content
\* parses, the text between the marker delimiters of the returned text is
\* valid JSON that parses to exactly the sanitized payload, and the text
\* outside the first marker span is unchanged, whatever characters the
\* payload's strings hold.
C26_MarkerHoldsSanitizedPayload ==
    (Processed /\ MarkerParses(originalContent)
       /\ ~typeThrows(JSONparse(trim(markerMatch(originalContent, markerOf(originalContent)).group)).obj)) =>
        LET out == processedContent.text
            written == JSONparse(markerMatch(out, markerOf(originalContent)).group)
        IN  /\ ~processedContent.threw
            /\ markerMatch(out, markerOf(originalContent)).found
            /\ written.ok
            /\ written.obj = sanitizedMarker(originalContent)
            /\ outsideMarker(out) = outsideMarker(originalContent)

\* The same for payloads without a replacement pattern in their strings.
C26_HoldsWithoutDollarPattern ==
    (Processed /\ MarkerParses(originalContent)
       /\ ~typeThrows(JSONparse(trim(markerMatch(originalContent, markerOf(originalContent)).group)).obj)
       /\ ~HasDollarPattern(originalContent)) =>
        LET out == processedContent.text
            written == JSONparse(markerMatch(out, markerOf(originalContent)).group)
        IN  /\ ~processedContent.threw
            /\ markerMatch(out, markerOf(originalContent)).found
            /\ written.ok
            /\ written.obj = sanitizedMarker(originalContent)
            /\ outsideMarker(out) = outsideMarker(originalContent)


----------------------------------------------------------------------------
(* Values and keys of the records after sanitizeGraphData                  *)

\* A payload of one of the chart types with a category key.
CategoryChart(gd) ==
    /\ sanitizes(gd)
    /\ graphType(gd) \in {S_line, S_bar, S_area, S_composed}

\* C24: for a line, bar, area or composed payload, after sanitizeGraphData no
\* record holds a numeric-looking string under a key other than the category
\* key, and the category key's value is unchanged in every record.
C24_OnlyCategoryKeyUncoerced ==
    (graphPc = "done" /\ CategoryChart(graphParsed)) =>
        LET cat == categoryKey(graphParsed)
        IN  \A i \in 1..Len(graphResult.data.items) :
                LET before == graphParsed.data.items[i]
                    after == graphResult.data.items[i]
                IN  after.isObject =>
                        /\ \A j \in 1..Len(after.kv) :
                              after.kv[j].k # cat => ~numericLooking(after.kv[j].v)
                        /\ Get(after.kv, cat) = Get(before.kv, cat)

\* The same, for records in which no key is named label and no two keys are
\* given the same name.
C24_HoldsWithoutLabelAndCollision ==
    (/\ graphPc = "done"
     /\ CategoryChart(graphParsed)
     /\ NoKeyCollision(graphParsed)
     /\ \A i \in 1..Len(graphParsed.data.items) :
           ~hasOwnProperty(graphParsed.data.items[i].kv, K_label)) =>
        LET cat == categoryKey(graphParsed)
        IN  \A i \in 1..Len(graphResult.data.items) :
                LET before == graphParsed.data.items[i]
                    after == graphResult.data.items[i]
                IN  after.isObject =>
                        /\ \A j \in 1..Len(after.kv) :
                              after.kv[j].k # cat => ~numericLooking(after.kv[j].v)
                        /\ Get(after.kv, cat) = Get(before.kv, cat)

\* C27: renaming keys never loses data: every record sanitizeGraphData
\* returns has as many keys as the record it was made from, distinct keys
\* staying distinct.
C27_NoKeyLost ==
    (graphPc = "done" /\ sanitizes(graphParsed)) =>
        \A i \in 1..Len(graphParsed.data.items) :
            graphParsed.data.items[i].isObject =>
                Len(graphResult.data.items[i].kv) = Len(graphParsed.data.items[i].kv)


----------------------------------------------------------------------------
(* The context cache under overlapping requests                            *)

\* The cached text is there exactly when the timestamp is.
CachePaired == (pdfContentCache # Null) <=> (pdfCacheTimestamp # Null)

\* The call of request r found a timestamp too old to use and went to the file.
FoundExpired(r) == AtOrAfterExpiry(r) /\ requests[r].load.read

\* C28: under every interleaving of overlapping requests, the cached content
\* is non-null exactly when the cache timestamp is non-null, and every
\* request whose call of extractPdfContent returns has the whole document
\* text, never null or a part of it.
C28_CachePairedAndWhole ==
    /\ CachePaired
    /\ pdfContentCache # Null => pdfContentCache = pdfData
    /\ \A r \in Requests :
          requests[r].pc = "context" =>
              /\ requests[r].pdfContent # Null
              /\ requests[r].pdfContent = pdfData

\* Two requests found the cache expired and went to the file together; the
\* first got the text, then the load of the second failed and emptied the
\* cache.
C28_Witness ==
    /\ FoundExpired("r1") /\ FoundExpired("r2")
    /\ requests["r1"].pc = "context"
    /\ requests["r1"].pdfContent = pdfData
    /\ requests["r2"].pc = "failed"
    /\ pdfContentCache = Null

\* The same pairing in route.ts as it is now, where extractPdfContent has no
\* await and a load that returns gives the text of pdfData.
C28_PairedInCurrentRoute ==
    /\ CachePaired
    /\ \A r \in Requests :
          (requests[r].loads = 1 /\ requests[r].pdfContent # Null) =>
              requests[r].pdfContent = pdfData


----------------------------------------------------------------------------
(* The order of the messages in the client's history                       *)

\* The list is empty, or starts with a user message and has before every
\* assistant message the user message it answers.
UserFirst(list) ==
    \/ Len(list) = 0
    \/ /\ list[1].role = "user"
       /\ \A i \in 1..Len(list) :
             list[i].role = "assistant" =>
                 /\ i > 1
                 /\ list[i - 1].role = "user"
                 /\ list[i - 1].turn = list[i].turn

\* C25: in every reachable state of the client the message history is empty
\* or starts with a user message, and every assistant message is directly
\* preceded by the user message that triggered it; under every interleaving
\* of submissions, responses and clearing, clearing in flight included.
C25_UserMessageFirst == UserFirst(messages)

----------------------------------------------------------------------------
(* The history in the browser's storage                                    *)

\* A step that stores a text under the history key.
WritesHistory == localStorage' # localStorage /\ localStorage'.present

\* The step of the first render's effects.
Mounts == ~mounted /\ mounted'

----------------------------------------------------------------------------
(* Requests in flight                                                      *)

\* The calls of callChatApi that have started and not yet settled.
InFlight == fetches - settlements

\* The user messages the handlers have appended (those loaded from the
\* storage have turn 0).
Asked(list) == {i \in 1..Len(list) : list[i].role = "user" /\ list[i].turn > 0}

\* C30: at most one chat request is in flight at any time; while isLoading
\* is true or the component is not hydrated, neither handleSubmit nor
\* handleVisualizeRequest appends a message or starts a call; and isLoading
\* is false again after every call has settled, with a reply or an error.
C30_OneRequestInFlight ==
    /\ [](InFlight \in {0, 1})
    /\ [](isLoading <=> InFlight = 1)
    /\ [][(isLoading \/ ~isHydrated) =>
             /\ fetches' = fetches
             /\ submissions' = submissions
             /\ \A i \in Asked(messages') : i \in Asked(messages) /\ messages'[i] = messages[i]]_vars

\* Two calls were made, one ended with an error and one with a reply, and
\* the component is idle again.
C30_Witness ==
    /\ fetches = MaxSubmissions /\ settlements = MaxSubmissions
    /\ ~isLoading
    /\ \E i, j \in 1..Len(messages) :
          /\ messages[i].role = "assistant" /\ messages[i].payload = "error"
          /\ messages[j].role = "assistant" /\ messages[j].payload = "graph"


----------------------------------------------------------------------------
(* What GraphRenderer hands to a chart                                     *)

\* The record has what the chart type asks for: pie a name and a number
\* under value; scatter numbers under x and y; line, bar, area and composed
\* a category key and a number under one other key at least.
ExposesRequiredKeys(item, t) ==
    /\ item.isObject
    /\ CASE t = S_pie ->
              hasOwnProperty(item.kv, K_name) /\ Get(item.kv, K_value).t = "number"
         [] t = S_scatter ->
              Get(item.kv, K_x).t = "number" /\ Get(item.kv, K_y).t = "number"
         [] t \in {S_line, S_bar, S_area, S_composed} ->
              \E c \in 1..Len(item.kv) : \E n \in 1..Len(item.kv) :
                  n # c /\ item.kv[n].v.t = "number"
         [] OTHER -> FALSE

EveryRecordExposes(props) ==
    /\ isArray(props.data) /\ Len(props.data.items) > 0
    /\ props.type.t = "string"
    /\ \A i \in 1..Len(props.data.items) :
          ExposesRequiredKeys(props.data.items[i], toLowerCase(props.type.s))

\* C23: GraphRenderer hands data to a chart only if every record exposes the
\* keys the chart type requires, with numeric values; otherwise it shows a
\* validation notice and renders no chart.
C23_ChartOnlyForCheckedRecords ==
    rendered # NotRendered =>
        /\ rendered.outcome = "chart" => EveryRecordExposes(rendered.props)
        /\ ~EveryRecordExposes(rendered.props) => rendered.outcome = "notice"

\* What holds: a chart is shown only if the first record exposes the keys.
C23_ChartOnlyForCheckedFirstRecord ==
    (rendered # NotRendered /\ rendered.outcome = "chart") =>
        ExposesRequiredKeys(rendered.props.data.items[1], toLowerCase(rendered.props.type.s))


====
